---- MODULE Spec2Model ----
(***************************************************************************)
(* Target assignment (multi_gt_creator) and loss composition of            *)
(* yolov3-plus_PyTorch, src/tools.py.                                      *)
(*                                                                         *)
(* Number representation.  The program computes in float64.  Here every    *)
(* length is an integer count of sub-pixels, SubPx sub-pixels per pixel,   *)
(* and a normalized label coordinate x is the integer x * CoordDen.  A     *)
(* quotient the program stores is kept as the pair <<numerator,            *)
(* denominator>> with a positive denominator; log(a / b) is kept as the    *)
(* pair <<a, b>>.  The additive 1e-20 of compute_iou is absorbed by        *)
(* float64 rounding whenever the union area is at least one square pixel,  *)
(* which the dirty-data test guarantees, so it is left out.                *)
(***************************************************************************)
EXTENDS Integers, Sequences, FiniteSets, TLC

\* Label coordinates are the multiples of 1/CoordDen in [0, 1]
\* (40: fifths and eighths are both whole).
CoordDen == 40
\* Images per batch, at most.
MaxBatch == 2
\* Ground-truth instances per batch, at most.
MaxLabels == 2

SubPx == 2 * CoordDen

VARIABLES
    input_size,     \* <<h, w>> in pixels
    strides,        \* sequence of strides
    anchor_size,    \* sequence of <<anchor_w, anchor_h>> in pixels
    ignore_thresh,  \* <<numerator, denominator>>
    label_lists,    \* per image, the labels the loop has consumed so far
    batch_index,    \* the image the outer loop is at (0-based)
    gt_tensor,      \* the per-scale arrays: <<s_indx, b, grid_y, grid_x, ab_ind>> -> entry
    status,         \* "setup", "loop", "returned" or "error" (an exception left the function);
                    \* "passed" or "arranged" once the returned tensor went to a loss
    ret,            \* the returned array: image -> flat position -> entry
    last_iou,       \* the label loop's local iou: the last result of compute_iou
    anchor_scale,   \* generate_anchor: the area ratios, as quotients
    anchor_aspect,  \* generate_anchor: per area ratio, the aspect ratios, as quotients
    bboxes_a,       \* IoU, DIoU, CIoU: a tensor of corner-form boxes
    bboxes_b,       \* IoU, DIoU, CIoU: the tensor paired with it
    scores,         \* IoU, DIoU, CIoU: the last result
    label,          \* loss: the label rows, position -> channels as loss reads them
    pred,           \* loss: the predictions, position -> [conf, cls, txty, twth, ciou]
    obj_loss_f,     \* loss: "bce" or "mse"
    loss_fn,        \* loss: "loss" or "loss_ciou"
    out,            \* loss: the last <<conf_loss, cls_loss, box_loss, total_loss>>
    changed,        \* loss: the position whose prediction the last step changed
    multi_scale,    \* train: args.multi_scale
    eval_epoch,     \* train: args.eval_epoch
    train_size,     \* train: the local train_size, <<h, w>>
    val_size,       \* train: the local val_size
    grid_size,      \* train: the size the model's grid was last set to
    trainable,      \* train: model.trainable
    epoch,          \* train: the epoch the outer loop is at
    iter_i,         \* train: the iteration the inner loop is at
    pc              \* train: where train() is: "iter", "label", "forward", "epoch_end",
                    \* "eval", "save", "done"; "idle" outside train()

encvars == <<input_size, strides, anchor_size, ignore_thresh, label_lists,
             batch_index, gt_tensor, status, ret, last_iou>>

genvars == <<anchor_scale, anchor_aspect>>

iouvars == <<bboxes_a, bboxes_b, scores>>

lossvars == <<label, pred, obj_loss_f, loss_fn, out, changed>>

trainvars == <<multi_scale, eval_epoch, train_size, val_size, grid_size,
               trainable, epoch, iter_i, pc>>

vars == <<encvars, lossvars, genvars, iouvars, trainvars>>

\* train() is not running
TrainIdle ==
    /\ multi_scale = FALSE
    /\ eval_epoch = 1
    /\ train_size = <<0, 0>>
    /\ val_size = <<0, 0>>
    /\ grid_size = <<0, 0>>
    /\ trainable = FALSE
    /\ epoch = 0
    /\ iter_i = 0
    /\ pc = "idle"

----------------------------------------------------------------------------
(* Rationals as pairs with a positive denominator. *)

\* a / b > c / d for a, c >= 0 and b, d > 0, by whole parts and then the
\* reciprocals of the remainders, so that no product is formed
RECURSIVE QuotGt(_, _, _, _)
QuotGt(a, b, c, d) ==
    IF a \div b # c \div d THEN a \div b > c \div d
    ELSE IF a % b = 0 THEN FALSE
    ELSE IF c % d = 0 THEN TRUE
    ELSE QuotGt(d, c % d, b, a % b)

RatGt(p, q) ==
    IF p[1] >= 0 /\ q[1] >= 0 THEN QuotGt(p[1], p[2], q[1], q[2])
    ELSE p[1] * q[2] > q[1] * p[2]

RatPos(p) == p[1] > 0

Min2(a, b) == IF a < b THEN a ELSE b

Max2(a, b) == IF a > b THEN a ELSE b

RECURSIVE Gcd(_, _)
Gcd(a, b) == IF b = 0 THEN a ELSE Gcd(b, a % b)

\* a quotient in lowest terms; the denominator is positive
Reduce(p) ==
    LET g == Gcd(IF p[1] < 0 THEN -p[1] ELSE p[1], p[2])
    IN  <<p[1] \div g, p[2] \div g>>

----------------------------------------------------------------------------
(* The array entry: 1+1+4+1+4 channels, as allocated at tools.py:145.       *)

\* variant: the entry without the four channels of the normalized box
NumChannelsNoBox == 1 + 1 + 4 + 1

NumChannels == 1 + 1 + 4 + 1 + 4

Channels == 0 .. (NumChannels - 1)

\* np.zeros: 0.0 in every channel (0.0 is <<0, 1>> as a quotient, <<1, 1>> as a log).
ZeroEntry ==
    [c \in Channels |->
        CASE c \in {2, 3, 6} -> <<0, 1>>
          [] c \in {4, 5}    -> <<1, 1>>
          [] OTHER           -> 0]

batch_size == Len(label_lists)

num_scale == Len(strides)

anchor_number == Len(anchor_size) \div num_scale

\* gt_tensor[s_indx].shape[1] and .shape[2]
ShapeH(s_indx) == input_size[1] \div strides[s_indx + 1]

ShapeW(s_indx) == input_size[2] \div strides[s_indx + 1]

TensorIndex(B) ==
    UNION { { <<s, b, y, x, a>> :
                b \in 0 .. (B - 1),
                y \in 0 .. (ShapeH(s) - 1),
                x \in 0 .. (ShapeW(s) - 1),
                a \in 0 .. (anchor_number - 1) } : s \in 0 .. (num_scale - 1) }

EmptyTensor(B) == [i \in TensorIndex(B) |-> ZeroEntry]

----------------------------------------------------------------------------
(* Geometry of one label <<xmin, ymin, xmax, ymax, class>>.                 *)

gt_class(gt_label) == gt_label[5]

\* (xmax + xmin) / 2 * w, in sub-pixels
c_x(gt_label) == (gt_label[3] + gt_label[1]) * input_size[2]

c_y(gt_label) == (gt_label[4] + gt_label[2]) * input_size[1]

\* (xmax - xmin) * w, in sub-pixels
box_w(gt_label) == (gt_label[3] - gt_label[1]) * input_size[2] * 2

box_h(gt_label) == (gt_label[4] - gt_label[2]) * input_size[1] * 2

\* variant: a label is skipped only when both sides are below one pixel
DirtyBoth(gt_label) == box_w(gt_label) < SubPx /\ box_h(gt_label) < SubPx

\* if box_w < 1. or box_h < 1.: continue
Dirty(gt_label) == box_w(gt_label) < SubPx \/ box_h(gt_label) < SubPx

set_anchors(all_anchor_size) ==
    [index \in 1 .. Len(all_anchor_size) |->
        <<0, 0, all_anchor_size[index][1] * SubPx, all_anchor_size[index][2] * SubPx>>]

\* variant: the union is the sum of the two areas
compute_iou_UnionIsSum(anchor_boxes, gt_box) ==
    [i \in 1 .. Len(anchor_boxes) |->
        LET ab   == anchor_boxes[i]
            I_w  == Min2(gt_box[3] \div 2, ab[3] \div 2) - Max2(-(gt_box[3] \div 2), -(ab[3] \div 2))
            I_h  == Min2(gt_box[4] \div 2, ab[4] \div 2) - Max2(-(gt_box[4] \div 2), -(ab[4] \div 2))
        IN  Reduce(<<I_h * I_w, gt_box[3] * gt_box[4] + ab[3] * ab[4]>>)]

compute_iou(anchor_boxes, gt_box) ==
    [i \in 1 .. Len(anchor_boxes) |->
        LET ab   == anchor_boxes[i]
            ab_x1 == ab[1] - ab[3] \div 2
            ab_y1 == ab[2] - ab[4] \div 2
            ab_x2 == ab[1] + ab[3] \div 2
            ab_y2 == ab[2] + ab[4] \div 2
            gb_x1 == gt_box[1] - gt_box[3] \div 2
            gb_y1 == gt_box[2] - gt_box[4] \div 2
            gb_x2 == gt_box[1] + gt_box[3] \div 2
            gb_y2 == gt_box[2] + gt_box[4] \div 2
            S_gt == gt_box[3] * gt_box[4]
            S_ab == ab[3] * ab[4]
            I_w  == Min2(gb_x2, ab_x2) - Max2(gb_x1, ab_x1)
            I_h  == Min2(gb_y2, ab_y2) - Max2(gb_y1, ab_y1)
            S_I  == I_h * I_w
            U    == S_gt + S_ab - S_I
        IN  Reduce(<<S_I, U>>)]

\* variant: the box of the label is compared where it lies in the image
LabelIou_AtCentre(gt_label) ==
    compute_iou(set_anchors(anchor_size),
                <<c_x(gt_label), c_y(gt_label), box_w(gt_label), box_h(gt_label)>>)

\* iou of the label against every anchor of every scale (tools.py:162-164)
LabelIou(gt_label) ==
    compute_iou(set_anchors(anchor_size), <<0, 0, box_w(gt_label), box_h(gt_label)>>)

\* iou_mask = (iou > ignore_thresh), as the set of 0-based indexes it selects
iou_mask(iou) == { index \in 0 .. (Len(iou) - 1) : RatGt(iou[index + 1], ignore_thresh) }

\* variant: the last index of the maximum
argmax_Last(iou) ==
    CHOOSE index \in 0 .. (Len(iou) - 1) :
        /\ \A j \in 0 .. (Len(iou) - 1) : ~RatGt(iou[j + 1], iou[index + 1])
        /\ \A j \in (index + 1) .. (Len(iou) - 1) : RatGt(iou[index + 1], iou[j + 1])

\* np.argmax: the first index of the maximum (0-based)
argmax(iou) ==
    CHOOSE index \in 0 .. (Len(iou) - 1) :
        /\ \A j \in 0 .. (Len(iou) - 1) : ~RatGt(iou[j + 1], iou[index + 1])
        /\ \A j \in 0 .. (index - 1) : RatGt(iou[index + 1], iou[j + 1])

----------------------------------------------------------------------------
(* Where anchor `index` of a label lands, and what is written there.        *)

s_indx_of(index) == index \div anchor_number

ab_ind_of(index) == index - s_indx_of(index) * anchor_number

\* strides[s_indx] raises IndexError beyond the list
StrideOk(index) == s_indx_of(index) < num_scale

CellDen(index) == strides[s_indx_of(index) + 1] * SubPx

\* variant: the cell index is rounded up
grid_x_RoundedUp(gt_label, index) ==
    (c_x(gt_label) + CellDen(index) - 1) \div CellDen(index)

\* int(c_x / s)
grid_x(gt_label, index) == c_x(gt_label) \div CellDen(index)

grid_y(gt_label, index) == c_y(gt_label) \div CellDen(index)

\* if grid_y < gt_tensor[s_indx].shape[1] and grid_x < gt_tensor[s_indx].shape[2]
InShape(gt_label, index) ==
    /\ grid_y(gt_label, index) < ShapeH(s_indx_of(index))
    /\ grid_x(gt_label, index) < ShapeW(s_indx_of(index))

\* variant: every image writes into the slice of the first image
SlotFirstImage(b, gt_label, index) ==
    <<s_indx_of(index), 0, grid_y(gt_label, index), grid_x(gt_label, index),
      ab_ind_of(index)>>

\* [batch_index, grid_y, grid_x, ab_ind] in gt_tensor[s_indx]
Slot(b, gt_label, index) ==
    <<s_indx_of(index), b, grid_y(gt_label, index), grid_x(gt_label, index),
      ab_ind_of(index)>>

\* variant: the weight grows with the area of the box
weight_LargeUp(gt_label) ==
    LET fw == Reduce(<<box_w(gt_label), input_size[2] * SubPx>>)
        fh == Reduce(<<box_h(gt_label), input_size[1] * SubPx>>)
    IN  <<fw[2] * fh[2] + fw[1] * fh[1], fw[2] * fh[2]>>

\* weight = 2.0 - (box_w / w) * (box_h / h)
weight(gt_label) ==
    LET fw == Reduce(<<box_w(gt_label), input_size[2] * SubPx>>)
        fh == Reduce(<<box_h(gt_label), input_size[1] * SubPx>>)
    IN  <<2 * fw[2] * fh[2] - fw[1] * fh[1], fw[2] * fh[2]>>

\* the eleven channels of a positive entry (tools.py:192-196)
PositiveEntry(gt_label, index) ==
    LET p_w == set_anchors(anchor_size)[index + 1][3]
        p_h == set_anchors(anchor_size)[index + 1][4]
        tx  == <<c_x(gt_label) % CellDen(index), CellDen(index)>>
        ty  == <<c_y(gt_label) % CellDen(index), CellDen(index)>>
        tw  == <<box_w(gt_label), p_w>>
        th  == <<box_h(gt_label), p_h>>
    IN  [c \in Channels |->
            CASE c = 0 -> 1
              [] c = 1 -> gt_class(gt_label)
              [] c = 2 -> tx
              [] c = 3 -> ty
              [] c = 4 -> tw
              [] c = 5 -> th
              [] c = 6 -> weight(gt_label)
              [] OTHER -> gt_label[c - 6]]

\* variant: the entry is marked negative, with scale weight -1.0
IgnoredEntryAsNegative(old) == [old EXCEPT ![0] = 0, ![6] = <<-1, 1>>]

\* variant: only the objectness channel is set to -1.0
IgnoredEntryObjOnly(old) == [old EXCEPT ![0] = -1]

\* channels 0 and 6 set to -1.0, the others kept (tools.py:245-246)
IgnoredEntry(old) == [old EXCEPT ![0] = -1, ![6] = <<-1, 1>>]

Ok(t) == [t |-> t, err |-> FALSE]

Raise(t) == [t |-> t, err |-> TRUE]

\* variant: an entry that is already positive is kept
WritePositiveKeepFirst(t, b, gt_label, index) ==
    IF ~StrideOk(index) THEN Raise(t)
    ELSE IF InShape(gt_label, index) /\ t[Slot(b, gt_label, index)][0] # 1
         THEN Ok([t EXCEPT ![Slot(b, gt_label, index)] = PositiveEntry(gt_label, index)])
         ELSE Ok(t)

\* the guarded write of the best anchor (tools.py:173-196 and 210-233)
WritePositive(t, b, gt_label, index) ==
    IF ~StrideOk(index) THEN Raise(t)
    ELSE IF InShape(gt_label, index)
         THEN Ok([t EXCEPT ![Slot(b, gt_label, index)] = PositiveEntry(gt_label, index)])
         ELSE Ok(t)

\* variant: the other anchors above the threshold are left as they are
WriteIgnoredNothing(t, b, gt_label, index) == Ok(t)

\* the unguarded write of an ignored anchor (tools.py:238-246)
WriteIgnored(t, b, gt_label, index) ==
    IF ~StrideOk(index) THEN Raise(t)
    ELSE IF Slot(b, gt_label, index) \in DOMAIN t
         THEN Ok([t EXCEPT ![Slot(b, gt_label, index)] = IgnoredEntry(@)])
         ELSE Raise(t)

\* variant: the first anchor of the list instead of the best one
AssignFirst(t, b, gt_label) == WritePositive(t, b, gt_label, 0)

\* if iou_mask.sum() == 0: the anchor with the highest IoU (tools.py:169-196)
AssignHighest(t, b, gt_label) ==
    WritePositive(t, b, gt_label, argmax(LabelIou(gt_label)))

\* else: for index, iou_m in enumerate(iou_mask) (tools.py:205-246)
RECURSIVE MaskLoop(_, _, _, _)
MaskLoop(acc, b, gt_label, index) ==
    IF acc.err \/ index >= Len(anchor_size) THEN acc
    ELSE LET iou == LabelIou(gt_label)
             nxt == IF index \notin iou_mask(iou) THEN acc
                    ELSE IF index = argmax(iou)
                         THEN WritePositive(acc.t, b, gt_label, index)
                         ELSE WriteIgnored(acc.t, b, gt_label, index)
         IN  MaskLoop(nxt, b, gt_label, index + 1)

AssignBestIgnoreOthers(t, b, gt_label) == MaskLoop(Ok(t), b, gt_label, 0)

\* the body of `for gt_label in label_lists[batch_index]` (tools.py:147-246)
LabelStep(t, b, gt_label) ==
    IF Dirty(gt_label) THEN Ok(t)
    ELSE IF iou_mask(LabelIou(gt_label)) = {}
         THEN AssignHighest(t, b, gt_label)
         ELSE AssignBestIgnoreOthers(t, b, gt_label)

----------------------------------------------------------------------------
(* gt.reshape(batch_size, -1, 11) per scale, then np.concatenate(.., 1).    *)

ScaleLen(s) == ShapeH(s) * ShapeW(s) * anchor_number

RECURSIVE ScaleOffset(_)
ScaleOffset(s) == IF s = 0 THEN 0 ELSE ScaleOffset(s - 1) + ScaleLen(s - 1)

TotalLen == ScaleOffset(num_scale)

ScaleAt(p) == CHOOSE s \in 0 .. (num_scale - 1) :
                  ScaleOffset(s) <= p /\ p < ScaleOffset(s) + ScaleLen(s)

\* variant: the cells of a scale are laid out column by column
Flatten_ColumnMajor(t, B) ==
    [b \in 0 .. (B - 1) |->
        [p \in 0 .. (TotalLen - 1) |->
            LET s == ScaleAt(p)
                r == p - ScaleOffset(s)
                a == r % anchor_number
                y == (r \div anchor_number) % ShapeH(s)
                x == (r \div anchor_number) \div ShapeH(s)
            IN  t[<<s, b, y, x, a>>]]]

Flatten(t, B) ==
    [b \in 0 .. (B - 1) |->
        [p \in 0 .. (TotalLen - 1) |->
            LET s == ScaleAt(p)
                r == p - ScaleOffset(s)
                a == r % anchor_number
                x == (r \div anchor_number) % ShapeW(s)
                y == (r \div anchor_number) \div ShapeW(s)
            IN  t[<<s, b, y, x, a>>]]]

----------------------------------------------------------------------------
(* The whole function on given label lists, as one value.                   *)

\* for gt_label in label_lists[batch_index] (tools.py:147)
RECURSIVE ImageLoop(_, _, _, _)
ImageLoop(acc, b, labels, i) ==
    IF acc.err \/ i > Len(labels) THEN acc
    ELSE ImageLoop(LabelStep(acc.t, b, labels[i]), b, labels, i + 1)

\* for batch_index in range(batch_size) (tools.py:146)
RECURSIVE BatchLoop(_, _, _)
BatchLoop(acc, lists, b) ==
    IF acc.err \/ b >= Len(lists) THEN acc
    ELSE BatchLoop(ImageLoop(acc, b, lists[b + 1], 1), lists, b + 1)

multi_gt_creator(lists) ==
    LET r == BatchLoop(Ok(EmptyTensor(Len(lists))), lists, 0)
    IN  [err |-> r.err,
         ret |-> IF r.err THEN <<>> ELSE Flatten(r.t, Len(lists))]

----------------------------------------------------------------------------
(* Inputs.                                                                  *)

\* strides of the two detection scales, finest first
Strides == <<2, 4>>

\* train.py passes sizes that every stride divides (train.py:96-100, 290)
TrainSizes == { <<4, 4>>, <<4, 8>> }

\* any <<h, w>> is accepted by the function itself
AnySizes == TrainSizes \cup { <<6, 6>> }

\* anchor lists whose length the number of scales divides
TrainAnchors ==
    { << <<1, 1>>, <<4, 4>> >>,
      << <<1, 1>>, <<3, 3>>, <<2, 2>>, <<4, 4>> >> }

\* an anchor list of three entries for two scales
AnyAnchors == TrainAnchors \cup { << <<1, 1>>, <<2, 2>>, <<4, 4>> >> }

Thresholds == { <<1, 2>>, <<1, 4>> }

\* labels <<xmin, ymin, xmax, ymax, class>>, coordinates in units of 1/CoordDen
LabelPool ==
    { <<0, 0, 20, 20, 0>>,
      <<0, 0, 20, 20, 1>>,
      <<5, 5, 15, 15, 0>>,
      <<0, 0, 40, 40, 1>>,
      <<20, 20, 40, 40, 1>>,
      <<0, 0, 5, 40, 0>> }

----------------------------------------------------------------------------
(* The state machine: one step per iteration of the label loop.             *)

RECURSIVE SumLen(_, _)
SumLen(lists, n) == IF n = 0 THEN 0 ELSE Len(lists[n]) + SumLen(lists, n - 1)

NumLabels == SumLen(label_lists, Len(label_lists))

InitWith(sizes, anchors) ==
    /\ input_size \in sizes
    /\ strides = Strides
    /\ anchor_size \in anchors
    /\ ignore_thresh \in Thresholds
    /\ \E B \in 1 .. MaxBatch : label_lists = [i \in 1 .. B |-> <<>>]
    /\ batch_index = 0
    /\ gt_tensor = <<>>
    /\ status = "setup"
    /\ ret = <<>>
    /\ last_iou = <<>>
    /\ label = <<>>
    /\ pred = <<>>
    /\ obj_loss_f = "mse"
    /\ loss_fn = "loss"
    /\ out = <<>>
    /\ changed = -1
    /\ TrainIdle
    /\ anchor_scale = <<>>
    /\ anchor_aspect = <<>>
    /\ bboxes_a = <<>>
    /\ bboxes_b = <<>>
    /\ scores = <<>>

Init == InitWith(TrainSizes, TrainAnchors)

InitAny == InitWith(AnySizes, AnyAnchors)

\* the arrays are allocated, one per stride (tools.py:136-145)
Setup ==
    /\ status = "setup"
    /\ gt_tensor' = EmptyTensor(batch_size)
    /\ status' = "loop"
    /\ UNCHANGED <<input_size, strides, anchor_size, ignore_thresh, label_lists,
                   batch_index, ret, last_iou>>
    /\ UNCHANGED <<lossvars, genvars, iouvars, trainvars>>

\* the loop takes the next label of the current image
Take(gt_label) ==
    /\ status = "loop"
    /\ batch_index < batch_size
    /\ NumLabels < MaxLabels
    /\ label_lists' = [label_lists EXCEPT ![batch_index + 1] = Append(@, gt_label)]
    /\ LET r == LabelStep(gt_tensor, batch_index, gt_label)
       IN  /\ gt_tensor' = r.t
           /\ status' = IF r.err THEN "error" ELSE "loop"
    /\ last_iou' = IF Dirty(gt_label) THEN last_iou ELSE LabelIou(gt_label)
    /\ UNCHANGED <<input_size, strides, anchor_size, ignore_thresh, batch_index, ret>>
    /\ UNCHANGED <<lossvars, genvars, iouvars, trainvars>>

\* the next label is below one pixel
SkipDirtyFrom(pool) == \E gt_label \in pool : Dirty(gt_label) /\ Take(gt_label)

\* the next label has no anchor above ignore_thresh
TakeNoneAboveFrom(pool) ==
    \E gt_label \in pool :
        /\ ~Dirty(gt_label)
        /\ iou_mask(LabelIou(gt_label)) = {}
        /\ Take(gt_label)

\* the next label has one or more anchors above ignore_thresh
TakeSomeAboveFrom(pool) ==
    \E gt_label \in pool :
        /\ ~Dirty(gt_label)
        /\ iou_mask(LabelIou(gt_label)) # {}
        /\ Take(gt_label)

SkipDirty == SkipDirtyFrom(LabelPool)

TakeNoneAbove == TakeNoneAboveFrom(LabelPool)

TakeSomeAbove == TakeSomeAboveFrom(LabelPool)

NextImage ==
    /\ status = "loop"
    /\ batch_index < batch_size
    /\ batch_index' = batch_index + 1
    /\ UNCHANGED <<input_size, strides, anchor_size, ignore_thresh, label_lists,
                   gt_tensor, status, ret, last_iou>>
    /\ UNCHANGED <<lossvars, genvars, iouvars, trainvars>>

Return ==
    /\ status = "loop"
    /\ batch_index = batch_size
    /\ ret' = Flatten(gt_tensor, batch_size)
    /\ status' = "returned"
    /\ UNCHANGED <<input_size, strides, anchor_size, ignore_thresh, label_lists,
                   batch_index, gt_tensor, last_iou>>
    /\ UNCHANGED <<lossvars, genvars, iouvars, trainvars>>

Next == Setup \/ SkipDirty \/ TakeNoneAbove \/ TakeSomeAbove \/ NextImage \/ Return

Spec == Init /\ [][Next]_vars

SpecAny == InitAny /\ [][Next]_vars

----------------------------------------------------------------------------
(* The loss masks read from the target (tools.py:290-295, 332-336).         *)

\* variant: the mask keeps every entry whose scale weight is not below 0
gt_mask_nonneg(gt_box_scale_weight) == IF gt_box_scale_weight[1] >= 0 THEN 1 ELSE 0

\* gt_mask = (gt_box_scale_weight > 0.).float()
gt_mask(gt_box_scale_weight) == IF RatPos(gt_box_scale_weight) THEN 1 ELSE 0

----------------------------------------------------------------------------
(* Vocabulary of the properties.                                            *)

RatEq(p, q) == p[1] * q[2] = q[1] * p[2]

Objectness(e) == e[0]

ScaleWeight(e) == e[6]

Allocated == status \in {"loop", "returned"}

Divisible == Len(anchor_size) % Len(strides) = 0

\* the labels of image b consumed so far that the dirty-data test lets through
RECURSIVE Clean(_)
Clean(labels) ==
    IF labels = <<>> THEN <<>>
    ELSE IF (labels[1][3] - labels[1][1]) * input_size[2] < CoordDen
            \/ (labels[1][4] - labels[1][2]) * input_size[1] < CoordDen
         THEN Clean(Tail(labels))
         ELSE <<labels[1]>> \o Clean(Tail(labels))

\* the anchors whose IoU with the label exceeds ignore_thresh
Above(gt_label) == iou_mask(LabelIou(gt_label))

Best(gt_label) == argmax(LabelIou(gt_label))

SliceOf(b) == { i \in DOMAIN gt_tensor : i[2] = b }

Images == 0 .. (batch_size - 1)

EntryCoherent(e) ==
    /\ Objectness(e) \in {-1, 0, 1}
    /\ Objectness(e) = 1 => RatPos(ScaleWeight(e))
    /\ Objectness(e) = -1 => RatEq(ScaleWeight(e), <<-1, 1>>)
    /\ Objectness(e) = 0 => RatEq(ScaleWeight(e), <<0, 1>>)

\* C2: in the arrays after any sequence of consumed labels, and in every
\* returned tensor, objectness is -1, 0 or 1; objectness 1 goes with a scale
\* weight above 0, objectness -1 with scale weight -1, objectness 0 with
\* scale weight 0.
C2_ObjectnessWeightCoherent ==
    /\ Allocated => \A i \in DOMAIN gt_tensor : EntryCoherent(gt_tensor[i])
    /\ status = "returned" =>
          \A b \in DOMAIN ret : \A p \in DOMAIN ret[b] : EntryCoherent(ret[b][p])

C2_Witness ==
    /\ status = "returned"
    /\ \E b \in DOMAIN ret :
          /\ \E p \in DOMAIN ret[b] : Objectness(ret[b][p]) = 1
          /\ \E p \in DOMAIN ret[b] : Objectness(ret[b][p]) = -1
          /\ \E p \in DOMAIN ret[b] : Objectness(ret[b][p]) = 0

\* C9: in every returned tensor the mask scale_weight > 0 of loss and
\* loss_ciou is 1 exactly at the entries with objectness 1.
C9_MaskSelectsPositives ==
    status = "returned" =>
        \A b \in DOMAIN ret : \A p \in DOMAIN ret[b] :
            (gt_mask(ScaleWeight(ret[b][p])) = 1) <=> (Objectness(ret[b][p]) = 1)

C9_Witness ==
    /\ status = "returned"
    /\ \E b \in DOMAIN ret :
          /\ \E p \in DOMAIN ret[b] :
                Objectness(ret[b][p]) = 1 /\ gt_mask(ScaleWeight(ret[b][p])) = 1
          /\ \E p \in DOMAIN ret[b] :
                Objectness(ret[b][p]) = -1 /\ gt_mask(ScaleWeight(ret[b][p])) = 0
          /\ \E p \in DOMAIN ret[b] :
                Objectness(ret[b][p]) = 0 /\ gt_mask(ScaleWeight(ret[b][p])) = 0

\* image b has consumed exactly one label that passed the dirty-data test,
\* so that label was processed on an all-zero slice
OneProcessed(b, gt_label) ==
    /\ Allocated
    /\ Clean(label_lists[b + 1]) = <<gt_label>>

PositivesOf(b) == { i \in SliceOf(b) : Objectness(gt_tensor[i]) = 1 }

IgnoredOf(b) == { i \in SliceOf(b) : Objectness(gt_tensor[i]) = -1 }

\* C3: one label processed on an empty slice with two or more anchors above
\* ignore_thresh: the best anchor is the only positive entry, every other
\* anchor above the threshold is ignored (objectness -1, scale weight -1) at
\* the label's centre cell of its own scale, and every remaining entry is 0.
C3_BestPositiveOthersIgnored ==
    \A b \in Images : \A gt_label \in LabelPool :
        (OneProcessed(b, gt_label) /\ Cardinality(Above(gt_label)) >= 2) =>
            /\ PositivesOf(b) = { Slot(b, gt_label, Best(gt_label)) }
            /\ IgnoredOf(b) =
                  { Slot(b, gt_label, index) : index \in Above(gt_label) \ {Best(gt_label)} }
            /\ \A index \in Above(gt_label) \ {Best(gt_label)} :
                  /\ Slot(b, gt_label, index) \in SliceOf(b)
                  /\ RatEq(ScaleWeight(gt_tensor[Slot(b, gt_label, index)]), <<-1, 1>>)
            /\ status = "returned" =>
                  /\ Cardinality({ p \in DOMAIN ret[b] : Objectness(ret[b][p]) = 1 }) = 1
                  /\ Cardinality({ p \in DOMAIN ret[b] : Objectness(ret[b][p]) = -1 })
                        = Cardinality(Above(gt_label)) - 1

\* a returned tensor of an image with one label whose ignored anchor lies on
\* another scale than its positive anchor
C3_Witness ==
    /\ status = "returned"
    /\ \E b \in Images : \E gt_label \in LabelPool :
          /\ OneProcessed(b, gt_label)
          /\ Cardinality(Above(gt_label)) >= 2
          /\ \E index \in Above(gt_label) :
                s_indx_of(index) # s_indx_of(Best(gt_label))

\* C4: one label processed on an empty slice with at most one anchor above
\* ignore_thresh: exactly one positive entry, at the anchor of maximal IoU,
\* no ignored entry, every other entry 0.
C4_SinglePositiveNoIgnored ==
    \A b \in Images : \A gt_label \in LabelPool :
        (OneProcessed(b, gt_label) /\ Cardinality(Above(gt_label)) <= 1) =>
            /\ PositivesOf(b) = { Slot(b, gt_label, Best(gt_label)) }
            /\ IgnoredOf(b) = {}
            /\ \A i \in SliceOf(b) \ PositivesOf(b) : Objectness(gt_tensor[i]) = 0
            /\ status = "returned" =>
                  /\ Cardinality({ p \in DOMAIN ret[b] : Objectness(ret[b][p]) = 1 }) = 1
                  /\ \A p \in DOMAIN ret[b] : Objectness(ret[b][p]) \in {0, 1}

\* both cases of C4 in one returned batch: a label with no anchor above the
\* threshold whose best anchor is not the first, and a label with exactly one
C4_Witness ==
    /\ status = "returned"
    /\ \E b \in Images : \E gt_label \in LabelPool :
          OneProcessed(b, gt_label) /\ Above(gt_label) = {} /\ Best(gt_label) # 0
    /\ \E b \in Images : \E gt_label \in LabelPool :
          OneProcessed(b, gt_label) /\ Cardinality(Above(gt_label)) = 1

\* the entry encodes the label: all eleven channels are those the label
\* writes for one of the anchors
Encodes(e, gt_label) ==
    \E index \in 0 .. (Len(anchor_size) - 1) :
        StrideOk(index) /\ e = PositiveEntry(gt_label, index)

JustTaken(gt_label) ==
    /\ status = "loop"
    /\ batch_index < batch_size
    /\ label_lists[batch_index + 1] # <<>>
    /\ gt_label = label_lists[batch_index + 1][Len(label_lists[batch_index + 1])]

\* 0 <= grid < shape on both axes at the scale of the label's best anchor
BestInExtent(gt_label) ==
    /\ StrideOk(Best(gt_label))
    /\ Slot(batch_index, gt_label, Best(gt_label)) \in DOMAIN gt_tensor

CleanLists == [i \in 1 .. Len(label_lists) |-> Clean(label_lists[i])]

\* C6: a label whose pixel width or height is below 1 changes nothing: the
\* tensor returned equals the tensor of the same lists without such labels.
C6_DirtyLabelChangesNothing ==
    status = "returned" =>
        LET alone == multi_gt_creator(CleanLists)
        IN  ~alone.err /\ ret = alone.ret

\* a returned batch in which an image holds a skipped label between or
\* beside processed ones
C6_Witness ==
    /\ status = "returned"
    /\ \E i \in 1 .. Len(label_lists) :
          /\ Clean(label_lists[i]) # label_lists[i]
          /\ Clean(label_lists[i]) # <<>>

\* C8: the slice of image j in the tensor of a batch equals the tensor of
\* image j run alone.
C8_BatchIndependence ==
    status = "returned" =>
        \A j \in Images :
            LET alone == multi_gt_creator(<<label_lists[j + 1]>>)
            IN  ~alone.err /\ ret[j] = alone.ret[0]

\* a returned batch of two images with different, non-empty slices
C8_Witness ==
    /\ status = "returned"
    /\ batch_size = 2
    /\ ret[0] # ret[1]
    /\ \E p \in DOMAIN ret[0] : Objectness(ret[0][p]) = 1
    /\ \E p \in DOMAIN ret[1] : Objectness(ret[1][p]) = 1

\* the anchors a label writes for: the best one, and every one above the threshold
Touched(gt_label) == Above(gt_label) \cup {Best(gt_label)}

\* the step consumes gt_label as the next label of the current image
Takes(gt_label) ==
    /\ status = "loop"
    /\ batch_index < batch_size
    /\ label_lists' = [label_lists EXCEPT ![batch_index + 1] = Append(@, gt_label)]

\* the scales at which the label's centre cell is outside the array
OutScales(gt_label) ==
    { s \in 0 .. (num_scale - 1) :
        \/ c_y(gt_label) \div (strides[s + 1] * SubPx) >= ShapeH(s)
        \/ c_x(gt_label) \div (strides[s + 1] * SubPx) >= ShapeW(s) }

\* C5 as stated: when the centre cell of a label is outside the extent of
\* the scale of an anchor it writes for, the step raises no error, leaves
\* every entry of that scale as it was, and the loop goes on
\* (refuted: the write of an ignored anchor is not guarded and raises).
C5_OutOfExtentSilentlyDropped ==
    [][ \A gt_label \in LabelPool :
          ( /\ Takes(gt_label)
            /\ Divisible
            /\ Clean(<<gt_label>>) # <<>>
            /\ \E index \in Touched(gt_label) : s_indx_of(index) \in OutScales(gt_label) )
          => /\ status' = "loop"
             /\ \A i \in DOMAIN gt_tensor :
                   i[1] \in OutScales(gt_label) => gt_tensor'[i] = gt_tensor[i]
      ]_vars

\* C7 as stated: with an anchor list whose length the number of strides
\* does not divide, the arrays are never allocated and nothing is returned:
\* the call ends in an error at setup
\* (refuted: the length is floor-divided and the call goes on).
C7_NonDivisibleAnchorsRejected ==
    ~Divisible => /\ status \in {"setup", "error"}
                  /\ NumLabels = 0

----------------------------------------------------------------------------
(* The loss composer (tools.py:11-43, 269-351).                             *)
(*                                                                          *)
(* A loss is a sum of products coef * f(operands), f one of the             *)
(* element-wise loss functions, which are finite on finite operands.  A     *)
(* product is kept as the record of f, coef and the operands; it is 0, and  *)
(* keeps no operand, when coef is 0.  A sum is kept as the array of its     *)
(* summands, one per position.                                              *)

Term(f, num, den, operands) ==
    IF num = 0 THEN [f |-> f, coef |-> <<0, 1>>, of |-> <<>>]
    ELSE [f |-> f, coef |-> <<num, den>>, of |-> operands]

\* torch.sigmoid, applied to the raw objectness
sigmoid(x) == [sigmoid |-> x]

BCELoss_forward(inputs, targets, mask) ==
    LET pos_id == [k \in DOMAIN mask |-> IF mask[k] = 1 THEN 1 ELSE 0]
        neg_id == [k \in DOMAIN mask |-> IF mask[k] = 0 THEN 1 ELSE 0]
    IN  [pos_loss |-> [k \in DOMAIN mask |->
                          Term("bce", -pos_id[k], 1, <<inputs[k], targets[k]>>)],
         neg_loss |-> [k \in DOMAIN mask |->
                          Term("log1m", -neg_id[k], 1, <<inputs[k]>>)]]

\* variant: every position that is not positive counts as negative
MSELoss_forward_NegNotPositive(inputs, targets, mask) ==
    LET pos_id == [k \in DOMAIN mask |-> IF mask[k] = 1 THEN 1 ELSE 0]
        neg_id == [k \in DOMAIN mask |-> IF mask[k] # 1 THEN 1 ELSE 0]
    IN  [pos_loss |-> [k \in DOMAIN mask |->
                          Term("sqdiff", pos_id[k], 1, <<inputs[k], targets[k]>>)],
         neg_loss |-> [k \in DOMAIN mask |->
                          Term("sq", neg_id[k], 1, <<inputs[k]>>)]]

MSELoss_forward(inputs, targets, mask) ==
    LET pos_id == [k \in DOMAIN mask |-> IF mask[k] = 1 THEN 1 ELSE 0]
        neg_id == [k \in DOMAIN mask |-> IF mask[k] = 0 THEN 1 ELSE 0]
    IN  [pos_loss |-> [k \in DOMAIN mask |->
                          Term("sqdiff", pos_id[k], 1, <<inputs[k], targets[k]>>)],
         neg_loss |-> [k \in DOMAIN mask |->
                          Term("sq", neg_id[k], 1, <<inputs[k]>>)]]

\* label[:, :, -1]
LastChannel(row) == row[Len(row)]

\* variant: the weight 5 is on the negative loss
conf_loss_of_NoobjFive(pred_conf, lab, f) ==
    LET inputs  == [k \in DOMAIN lab |-> sigmoid(pred_conf[k])]
        gt_conf == [k \in DOMAIN lab |-> lab[k][1]]
        gt_obj  == [k \in DOMAIN lab |-> lab[k][2]]
        parts   == IF f = "bce" THEN BCELoss_forward(inputs, gt_conf, gt_obj)
                   ELSE MSELoss_forward(inputs, gt_conf, gt_obj)
    IN  [obj      |-> 1,
         pos_loss |-> parts.pos_loss,
         noobj    |-> IF f = "bce" THEN 1 ELSE 5,
         neg_loss |-> parts.neg_loss]

\* conf_loss = obj * pos_loss + noobj * neg_loss (tools.py:270-279, 297-299)
conf_loss_of(pred_conf, lab, f) ==
    LET inputs  == [k \in DOMAIN lab |-> sigmoid(pred_conf[k])]
        gt_conf == [k \in DOMAIN lab |-> lab[k][1]]
        gt_obj  == [k \in DOMAIN lab |-> lab[k][2]]
        parts   == IF f = "bce" THEN BCELoss_forward(inputs, gt_conf, gt_obj)
                   ELSE MSELoss_forward(inputs, gt_conf, gt_obj)
    IN  [obj      |-> IF f = "bce" THEN 1 ELSE 5,
         pos_loss |-> parts.pos_loss,
         noobj    |-> 1,
         neg_loss |-> parts.neg_loss]

\* cls_loss = mean(sum(cross_entropy(pred_cls, gt_cls) * gt_mask, 1))
cls_loss_of(pred_cls, lab) ==
    [k \in DOMAIN lab |->
        Term("ce", gt_mask(LastChannel(lab[k])), 1, <<pred_cls[k], lab[k][3]>>)]

loss(pred_conf, pred_cls, pred_txtytwth, lab, f) ==
    LET weight_mask(k) == LastChannel(lab[k])[1] * gt_mask(LastChannel(lab[k]))
        txty_loss == [k \in DOMAIN lab |->
                        Term("bce_logits", weight_mask(k), LastChannel(lab[k])[2],
                             <<pred_txtytwth[k][1], lab[k][4], lab[k][5]>>)]
        twth_loss == [k \in DOMAIN lab |->
                        Term("mse", weight_mask(k), LastChannel(lab[k])[2],
                             <<pred_txtytwth[k][2], lab[k][6], lab[k][7]>>)]
        conf_loss == conf_loss_of(pred_conf, lab, f)
        cls_loss  == cls_loss_of(pred_cls, lab)
        txtytwth_loss == <<txty_loss, twth_loss>>
        total_loss == <<conf_loss, cls_loss, txtytwth_loss>>
    IN  <<conf_loss, cls_loss, txtytwth_loss, total_loss>>

loss_ciou(pred_conf, pred_cls, pred_ciou, lab, f) ==
    LET weight_mask(k) == LastChannel(lab[k])[1] * gt_mask(LastChannel(lab[k]))
        ciou_loss == [k \in DOMAIN lab |->
                        Term("one_minus", weight_mask(k), LastChannel(lab[k])[2],
                             <<pred_ciou[k]>>)]
        conf_loss == conf_loss_of(pred_conf, lab, f)
        cls_loss  == cls_loss_of(pred_cls, lab)
        total_loss == <<conf_loss, cls_loss, ciou_loss>>
    IN  <<conf_loss, cls_loss, ciou_loss, total_loss>>

----------------------------------------------------------------------------
(* The loss on drawn labels and predictions.                                *)

\* positions of the one image
LossAnchors == 2

\* label rows <<conf, obj, cls, tx, ty, tw, th, scale_weight>>: a negative,
\* an ignored one, an ignored one that was positive before, a positive
LossRows ==
    { <<0, 0, 0, <<0, 1>>, <<0, 1>>, <<1, 1>>, <<1, 1>>, <<0, 1>> >>,
      <<1, -1, 0, <<0, 1>>, <<0, 1>>, <<1, 1>>, <<1, 1>>, <<-1, 1>> >>,
      <<1, -1, 1, <<1, 2>>, <<0, 1>>, <<2, 1>>, <<1, 2>>, <<-1, 1>> >>,
      <<1, 1, 1, <<1, 2>>, <<0, 1>>, <<2, 1>>, <<1, 2>>, <<7, 4>> >> }

\* predictions of one position, as levels of the raw outputs
PredPool ==
    { [conf |-> 0, cls |-> 0, txtytwth |-> <<0, 0>>, ciou |-> 0],
      [conf |-> 1, cls |-> 0, txtytwth |-> <<0, 0>>, ciou |-> 0],
      [conf |-> 0, cls |-> 1, txtytwth |-> <<0, 0>>, ciou |-> 0],
      [conf |-> 0, cls |-> 0, txtytwth |-> <<1, 0>>, ciou |-> 1],
      [conf |-> 0, cls |-> 0, txtytwth |-> <<0, 1>>, ciou |-> 1] }

Positions == 1 .. LossAnchors

CallLoss(p) ==
    LET pred_conf == [k \in Positions |-> p[k].conf]
        pred_cls  == [k \in Positions |-> p[k].cls]
    IN  IF loss_fn = "loss"
        THEN loss(pred_conf, pred_cls, [k \in Positions |-> p[k].txtytwth], label, obj_loss_f)
        ELSE loss_ciou(pred_conf, pred_cls, [k \in Positions |-> p[k].ciou], label, obj_loss_f)

InitLoss ==
    /\ input_size = <<0, 0>>
    /\ strides = <<>>
    /\ anchor_size = <<>>
    /\ ignore_thresh = <<1, 2>>
    /\ label_lists = <<>>
    /\ batch_index = 0
    /\ gt_tensor = <<>>
    /\ status = "idle"
    /\ ret = <<>>
    /\ last_iou = <<>>
    /\ anchor_scale = <<>>
    /\ anchor_aspect = <<>>
    /\ bboxes_a = <<>>
    /\ bboxes_b = <<>>
    /\ scores = <<>>
    /\ label \in [Positions -> LossRows]
    /\ pred \in [Positions -> PredPool]
    /\ obj_loss_f \in {"bce", "mse"}
    /\ loss_fn \in {"loss", "loss_ciou"}
    /\ out = <<>>
    /\ changed = -1
    /\ TrainIdle

\* the loss of the predictions
Forward ==
    /\ out = <<>>
    /\ out' = CallLoss(pred)
    /\ UNCHANGED <<label, pred, obj_loss_f, loss_fn, changed>>
    /\ UNCHANGED <<encvars, genvars, iouvars, trainvars>>

\* the loss again, with the prediction of one position changed
ForwardChanged ==
    /\ out # <<>>
    /\ \E k \in Positions : \E v \in PredPool :
          /\ v # pred[k]
          /\ pred' = [pred EXCEPT ![k] = v]
          /\ changed' = k
    /\ out' = CallLoss(pred')
    /\ UNCHANGED <<label, obj_loss_f, loss_fn>>
    /\ UNCHANGED <<encvars, genvars, iouvars, trainvars>>

NextLoss == Forward \/ ForwardChanged

SpecLoss == InitLoss /\ [][NextLoss]_vars

IsIgnored(row) == row[2] = -1 /\ RatEq(LastChannel(row), <<-1, 1>>)

\* C10: when the predictions change at ignored positions only (objectness
\* mask -1, scale weight -1), the positive and negative objectness loss, the
\* classification loss, the box loss and the total loss stay as they were,
\* with either objectness loss and either box loss.
C10_IgnoredContributesNothing ==
    [][ ( /\ out # <<>>
          /\ \A k \in Positions : pred'[k] # pred[k] => IsIgnored(label[k]) )
        => out' = out ]_vars

\* the loss was computed again after the prediction of an ignored position
\* changed, next to a position that is positive
C10_Witness ==
    /\ out # <<>>
    /\ changed \in Positions
    /\ IsIgnored(label[changed])
    /\ \E k \in Positions : label[k][2] = 1

\* C17: in loss and loss_ciou the objectness loss is obj * pos_loss +
\* noobj * neg_loss with obj 5 and noobj 1 under "mse" and 1 and 1 under
\* "bce", the positive part taken over the positive positions and the
\* negative part over the negative ones; the total is the sum of the
\* objectness, classification and box loss with no further weight, and the
\* four are returned in the order objectness, classification, box, total.
C17_ObjectnessWeightsAndTotal ==
    out # <<>> =>
        /\ Len(out) = 4
        /\ DOMAIN out[1] = {"obj", "pos_loss", "noobj", "neg_loss"}
        /\ out[1].obj = (IF obj_loss_f = "mse" THEN 5 ELSE 1)
        /\ out[1].noobj = 1
        /\ \A k \in Positions :
              /\ out[1].pos_loss[k].f = (IF obj_loss_f = "mse" THEN "sqdiff" ELSE "bce")
              /\ out[1].neg_loss[k].f = (IF obj_loss_f = "mse" THEN "sq" ELSE "log1m")
              /\ (out[1].pos_loss[k].of # <<>>) <=> (label[k][2] = 1)
              /\ (out[1].neg_loss[k].of # <<>>) <=> (label[k][2] = 0)
              /\ out[2][k].f = "ce"
        /\ IF loss_fn = "loss"
           THEN /\ Len(out[3]) = 2
                /\ \A k \in Positions : /\ out[3][1][k].f = "bce_logits"
                                        /\ out[3][2][k].f = "mse"
           ELSE \A k \in Positions : out[3][k].f = "one_minus"
        /\ out[4] = <<out[1], out[2], out[3]>>

\* loss_ciou under "mse", over a positive and a negative position
C17_Witness ==
    /\ out # <<>>
    /\ obj_loss_f = "mse"
    /\ loss_fn = "loss_ciou"
    /\ out[1].obj = 5
    /\ \E k \in Positions : label[k][2] = 1
    /\ \E k \in Positions : label[k][2] = 0

----------------------------------------------------------------------------
(* The shape of the returned array.                                         *)

\* the sum, over the first n scales, of H_s * W_s * anchors per scale
RECURSIVE TotalAnchors(_)
TotalAnchors(n) ==
    IF n = 0 THEN 0
    ELSE TotalAnchors(n - 1)
         + (input_size[1] \div strides[n]) * (input_size[2] \div strides[n])
           * (Len(anchor_size) \div Len(strides))

\* t is an array of shape [B, N, C]
HasShape(t, B, N, C) ==
    /\ DOMAIN t = 0 .. (B - 1)
    /\ \A b \in DOMAIN t :
          /\ DOMAIN t[b] = 0 .. (N - 1)
          /\ \A p \in DOMAIN t[b] : DOMAIN t[b][p] = 0 .. (C - 1)

\* C11 as stated: the returned tensor has shape [batch, sum over the scales
\* of H_s * W_s * anchors per scale, 10]
\* (refuted: the arrays are allocated and reshaped with 1+1+4+1+4 channels).
C11_ShapeTenChannels ==
    status = "returned" =>
        HasShape(ret, Len(label_lists), TotalAnchors(Len(strides)), 10)

\* C11 (amended): the returned tensor has shape [batch, sum over the scales
\* of H_s * W_s * anchors per scale, 11]: eleven channels per anchor.
C11_ShapeElevenChannels ==
    status = "returned" =>
        HasShape(ret, Len(label_lists), TotalAnchors(Len(strides)), 11)

\* a returned batch of two images, two anchors per scale, on a grid that is
\* not square, with an entry whose last channel (ymax) is set
C11_Witness ==
    /\ status = "returned"
    /\ Len(label_lists) = 2
    /\ Len(anchor_size) = 4
    /\ input_size = <<4, 8>>
    /\ \E p \in DOMAIN ret[1] : 10 \in DOMAIN ret[1][p] /\ ret[1][p][10] # 0

----------------------------------------------------------------------------
(* generate_anchor (tools.py:46-70), and its anchors handed to              *)
(* multi_gt_creator.  An area ratio and an aspect ratio are quotients       *)
(* <<n, d>>; the ratios drawn are dyadic, so S_fmap * ab_scale is exact in  *)
(* float64, and the aspect ratios are whole, so ab_w * a is a whole number. *)

\* np.floor(np.sqrt(S_fmap * ab_scale))
FloorSqrt(S_fmap, ab_scale) ==
    CHOOSE m \in 0 .. (S_fmap * ab_scale[1]) :
        /\ m * m * ab_scale[2] <= S_fmap * ab_scale[1]
        /\ (m + 1) * (m + 1) * ab_scale[2] > S_fmap * ab_scale[1]

\* variant: the anchors are emitted as [ab_h, ab_w]
AnchorsOfScale_HeightFirst(S_fmap, ab_scale, aspect_ratio) ==
    [j \in 1 .. Len(aspect_ratio) |->
        LET ab_w == FloorSqrt(S_fmap, ab_scale)
        IN  <<(ab_w * aspect_ratio[j][1]) \div aspect_ratio[j][2], ab_w>>]

\* for a in aspect_ratio: total_anchor_size.append([ab_w, ab_w * a])
AnchorsOfScale(S_fmap, ab_scale, aspect_ratio) ==
    [j \in 1 .. Len(aspect_ratio) |->
        LET ab_w == FloorSqrt(S_fmap, ab_scale)
        IN  <<ab_w, (ab_w * aspect_ratio[j][1]) \div aspect_ratio[j][2]>>]

\* for ab_scale, aspect_ratio in zip(anchor_scale, anchor_aspect): the first k pairs
RECURSIVE ZipLoop(_, _, _, _)
ZipLoop(S_fmap, scales, aspects, k) ==
    IF k = 0 THEN <<>>
    ELSE ZipLoop(S_fmap, scales, aspects, k - 1)
         \o AnchorsOfScale(S_fmap, scales[k], aspects[k])

\* variant: no assertion; zip stops at the shorter list
generate_anchor_NoAssert(size, stride, scales, aspects) ==
    LET hs     == size[1] \div stride
        ws     == size[2] \div stride
        S_fmap == hs * ws
    IN  [err |-> FALSE,
         ret |-> ZipLoop(S_fmap, scales, aspects, Min2(Len(scales), Len(aspects)))]

generate_anchor(size, stride, scales, aspects) ==
    IF Len(scales) # Len(aspects) THEN [err |-> TRUE, ret |-> <<>>]
    ELSE LET hs     == size[1] \div stride
             ws     == size[2] \div stride
             S_fmap == hs * ws
         IN  [err |-> FALSE, ret |-> ZipLoop(S_fmap, scales, aspects, Len(scales))]

\* the input size of training (train.py:99), and one whose height the stride
\* of 32 does not divide
AnchorSizes == { <<416, 416>>, <<360, 416>> }

AnchorStrides == <<32>>

\* <<anchor_scale, anchor_aspect>>; the last two differ in length
AnchorConfigs ==
    { << << <<1, 4>> >>, << << <<1, 1>> >> >> >>,
      << << <<1, 4>>, <<1, 1>> >>, << << <<1, 1>>, <<2, 1>> >>, << <<1, 1>> >> >> >>,
      << << <<1, 4>>, <<1, 1>> >>, << << <<1, 1>> >>, << <<1, 1>> >> >> >>,
      << << <<1, 1>> >>, << << <<1, 1>>, <<2, 1>> >> >> >>,
      << << <<1, 4>>, <<1, 1>> >>, << << <<1, 1>> >> >> >>,
      << << <<1, 4>> >>, << << <<1, 1>> >>, << <<2, 1>> >> >> >> }

\* [0.4, 0.4, 0.6, 0.6, 3], a box of 1/40 of the image in its corner, a box
\* of no width, a box in the far corner
ExamplePool ==
    { <<16, 16, 24, 24, 3>>,
      <<0, 0, 1, 1, 0>>,
      <<4, 4, 4, 8, 0>>,
      <<30, 30, 40, 40, 1>> }

InitAnchors ==
    /\ input_size \in AnchorSizes
    /\ strides = AnchorStrides
    /\ \E cfg \in AnchorConfigs : anchor_scale = cfg[1] /\ anchor_aspect = cfg[2]
    /\ anchor_size = <<>>
    /\ ignore_thresh \in Thresholds
    /\ \E B \in 1 .. MaxBatch : label_lists = [i \in 1 .. B |-> <<>>]
    /\ batch_index = 0
    /\ gt_tensor = <<>>
    /\ status = "config"
    /\ ret = <<>>
    /\ last_iou = <<>>
    /\ label = <<>>
    /\ pred = <<>>
    /\ obj_loss_f = "mse"
    /\ loss_fn = "loss"
    /\ out = <<>>
    /\ changed = -1
    /\ TrainIdle
    /\ bboxes_a = <<>>
    /\ bboxes_b = <<>>
    /\ scores = <<>>

\* anchor_size = generate_anchor(input_size, stride, anchor_scale, anchor_aspect)
GenerateAnchor ==
    /\ status = "config"
    /\ LET r == generate_anchor(input_size, strides[1], anchor_scale, anchor_aspect)
       IN  /\ anchor_size' = r.ret
           /\ status' = IF r.err THEN "error" ELSE "setup"
    /\ UNCHANGED <<input_size, strides, ignore_thresh, label_lists, batch_index,
                   gt_tensor, ret, last_iou>>
    /\ UNCHANGED <<lossvars, genvars, iouvars, trainvars>>

SkipDirtyExample == SkipDirtyFrom(ExamplePool)

TakeNoneAboveExample == TakeNoneAboveFrom(ExamplePool)

TakeSomeAboveExample == TakeSomeAboveFrom(ExamplePool)

NextAnchors ==
    \/ GenerateAnchor
    \/ Setup
    \/ SkipDirtyExample
    \/ TakeNoneAboveExample
    \/ TakeSomeAboveExample
    \/ NextImage
    \/ Return

SpecAnchors == InitAnchors /\ [][NextAnchors]_vars

\* the inputs of the end-to-end example
IsExample ==
    /\ input_size = <<416, 416>>
    /\ strides = <<32>>
    /\ anchor_scale = << <<1, 4>> >>
    /\ anchor_aspect = << << <<1, 1>> >> >>
    /\ label_lists = << << <<16, 16, 24, 24, 3>> >> >>

\* the flat position of grid cell (6, 6) of the one 13 x 13 scale with one anchor
ExampleCell == (6 * 13 + 6) * 1 + 0

\* C12: input_size [416, 416], one stride 32, the anchors of generate_anchor
\* for anchor_scale [0.25] and anchor_aspect [[1.0]], one ground truth
\* [0.4, 0.4, 0.6, 0.6, class 3]: the returned tensor has exactly one
\* positive entry, at grid cell (6, 6), its class channel is 3, and no entry
\* is ignored.
C12_ExampleOnePositive ==
    (status = "returned" /\ IsExample) =>
        /\ { p \in DOMAIN ret[0] : Objectness(ret[0][p]) = 1 } = { ExampleCell }
        /\ ret[0][ExampleCell][1] = 3
        /\ \A p \in DOMAIN ret[0] : Objectness(ret[0][p]) # -1
        /\ gt_tensor[<<0, 0, 6, 6, 0>>] = ret[0][ExampleCell]

C12_Witness ==
    /\ status = "returned"
    /\ IsExample
    /\ anchor_size = << <<6, 6>> >>
    /\ Cardinality(DOMAIN ret[0]) = 13 * 13

\* C13: when anchor_scale and anchor_aspect differ in length, generate_anchor
\* ends in an error and hands no anchor list on: the call never gets past
\* the configuration, and no anchor list, array or tensor exists.
C13_LengthMismatchRejected ==
    Len(anchor_scale) # Len(anchor_aspect) =>
        /\ status \in {"config", "error"}
        /\ anchor_size = <<>>
        /\ gt_tensor = <<>>
        /\ ret = <<>>

\* generate_anchor has raised on lists of different length
C13_Witness ==
    /\ status = "error"
    /\ Len(anchor_scale) # Len(anchor_aspect)
    /\ anchor_scale # <<>>
    /\ anchor_aspect # <<>>

----------------------------------------------------------------------------
(* compute_iou on the boxes the label loop hands it.                        *)

\* anchor `index` (1-based) has the pixel width and height of the label's box
SameShape(gt_label, index) ==
    /\ anchor_size[index][1] * CoordDen = (gt_label[3] - gt_label[1]) * input_size[2]
    /\ anchor_size[index][2] * CoordDen = (gt_label[4] - gt_label[2]) * input_size[1]

\* C14: compute_iou of the origin-anchored anchors and the origin-anchored
\* box of a ground truth is exactly 1 at every anchor whose width and height
\* equal the box's, and strictly between 0 and 1 at every other anchor.
C14_IouOneExactlyAtSameShape ==
    \A gt_label \in LabelPool :
        (JustTaken(gt_label) /\ Clean(<<gt_label>>) # <<>>) =>
            /\ Len(last_iou) = Len(anchor_size)
            /\ \A index \in 1 .. Len(anchor_size) :
                  IF SameShape(gt_label, index)
                  THEN last_iou[index][1] = last_iou[index][2]
                  ELSE /\ last_iou[index][1] > 0
                       /\ last_iou[index][1] < last_iou[index][2]

\* a box that is not square, with an anchor of its shape and anchors of
\* other shapes
C14_Witness ==
    \E gt_label \in LabelPool :
        /\ JustTaken(gt_label)
        /\ Clean(<<gt_label>>) # <<>>
        /\ \E index \in 1 .. Len(anchor_size) : SameShape(gt_label, index)
        /\ \E index \in 1 .. Len(anchor_size) : ~SameShape(gt_label, index)
        /\ (gt_label[3] - gt_label[1]) * input_size[2]
              # (gt_label[4] - gt_label[2]) * input_size[1]

----------------------------------------------------------------------------
(* Anchor lists with anchors that are not square and anchors of equal IoU.  *)

\* one anchor per scale, each the other turned; two equal anchors on the
\* first scale and two turned ones on the second
TieAnchors ==
    { << <<2, 4>>, <<4, 2>> >>,
      << <<2, 2>>, <<2, 2>>, <<4, 2>>, <<2, 4>> >> }

InitTies == InitWith(TrainSizes, TieAnchors)

SpecTies == InitTies /\ [][Next]_vars

----------------------------------------------------------------------------
(* The paired IoU and its variants (tools.py:254-266, 355-429).             *)
(*                                                                          *)
(* A tensor of boxes is the record of its rows <<xmin, ymin, xmax, ymax>>   *)
(* and of requires_grad; a result carries requires_grad as autograd sets    *)
(* it: true when an operand has it, false after detach().  A score is a     *)
(* quotient in lowest terms.  The 1e-20 added to a denominator is absorbed  *)
(* whenever the denominator is not 0, and makes the quotient 0 when both    *)
(* numerator and denominator are 0.  atan is no rational function: v is     *)
(* kept as the pair of bounds it lies between, above the lower one.         *)

\* rows of a batch, at most
MaxPairs == 2

RatSub(p, q) ==
    LET g == Gcd(p[2], q[2])
    IN  Reduce(<<p[1] * (q[2] \div g) - q[1] * (p[2] \div g), (p[2] \div g) * q[2]>>)

\* num / (den + 1e-20)
Quot(num, den) ==
    IF den = 0 THEN <<0, 1>>
    ELSE IF den < 0 THEN Reduce(<<-num, -den>>)
    ELSE Reduce(<<num, den>>)

\* variant: the union is the sum of the two areas
iou_score_UnionIsSum(a, b) ==
    [k \in 1 .. Len(a) |->
        LET tl     == <<Max2(a[k][1], b[k][1]), Max2(a[k][2], b[k][2])>>
            br     == <<Min2(a[k][3], b[k][3]), Min2(a[k][4], b[k][4])>>
            area_a == (a[k][3] - a[k][1]) * (a[k][4] - a[k][2])
            area_b == (b[k][3] - b[k][1]) * (b[k][4] - b[k][2])
            en     == (IF tl[1] < br[1] THEN 1 ELSE 0) * (IF tl[2] < br[2] THEN 1 ELSE 0)
            area_i == (br[1] - tl[1]) * (br[2] - tl[2]) * en
        IN  Quot(area_i, area_a + area_b)]

\* variant: the overlap is the product of the two differences, not masked
iou_score_NoMask(a, b) ==
    [k \in 1 .. Len(a) |->
        LET area_a == (a[k][3] - a[k][1]) * (a[k][4] - a[k][2])
            area_b == (b[k][3] - b[k][1]) * (b[k][4] - b[k][2])
            area_i == (Min2(a[k][3], b[k][3]) - Max2(a[k][1], b[k][1]))
                      * (Min2(a[k][4], b[k][4]) - Max2(a[k][2], b[k][2]))
        IN  Quot(area_i, area_a + area_b - area_i)]

\* one score per row (tools.py:254-266)
iou_score(a, b) ==
    [k \in 1 .. Len(a) |->
        LET tl     == <<Max2(a[k][1], b[k][1]), Max2(a[k][2], b[k][2])>>
            br     == <<Min2(a[k][3], b[k][3]), Min2(a[k][4], b[k][4])>>
            area_a == (a[k][3] - a[k][1]) * (a[k][4] - a[k][2])
            area_b == (b[k][3] - b[k][1]) * (b[k][4] - b[k][2])
            en     == (IF tl[1] < br[1] THEN 1 ELSE 0) * (IF tl[2] < br[2] THEN 1 ELSE 0)
            area_i == (br[1] - tl[1]) * (br[2] - tl[2]) * en
        IN  Quot(area_i, area_a + area_b - area_i)]

\* x.view(B, -1): B rows of equal length, in order
View(flat, B) ==
    LET N == Len(flat) \div B
    IN  [i \in 1 .. B |-> [n \in 1 .. N |-> flat[(i - 1) * N + n]]]

\* x.view(-1)
ViewFlat(x) ==
    LET N == Len(x[1])
    IN  [k \in 1 .. (Len(x) * N) |-> x[((k - 1) \div N) + 1][((k - 1) % N) + 1]]

IoU(a, b, B) ==
    [data          |-> View(iou_score(a.data, b.data), B),
     requires_grad |-> a.requires_grad \/ b.requires_grad]

\* diou = iou - D**2 / (C**2 + 1e-20) (tools.py:369-402)
DIoU(a, b, B) ==
    LET iou_flat == ViewFlat(IoU(a, b, B).data)
        lens(k) ==
            LET ra == a.data[k]
                rb == b.data[k]
                x_max == Max2(Max2(ra[1], ra[3]), Max2(rb[1], rb[3]))
                x_min == Min2(Min2(ra[1], ra[3]), Min2(rb[1], rb[3]))
                y_max == Max2(Max2(ra[2], ra[4]), Max2(rb[2], rb[4]))
                y_min == Min2(Min2(ra[2], ra[4]), Min2(rb[2], rb[4]))
                \* C**2, and D**2 times 4 (the centres are halves)
                C2   == (x_max - x_min) * (x_max - x_min) + (y_max - y_min) * (y_max - y_min)
                D2x4 == (rb[1] + rb[3] - ra[1] - ra[3]) * (rb[1] + rb[3] - ra[1] - ra[3])
                        + (rb[2] + rb[4] - ra[2] - ra[4]) * (rb[2] + rb[4] - ra[2] - ra[4])
            IN  Quot(D2x4, 4 * C2)
    IN  [data          |-> View([k \in 1 .. Len(a.data) |-> RatSub(iou_flat[k], lens(k))], B),
         requires_grad |-> a.requires_grad \/ b.requires_grad]

RatAdd(p, q) == RatSub(p, <<-q[1], q[2]>>)

\* v = 4 / pi**2 * ((atan(w1 / h1) - atan(w2 / h2))**2 + 1e-15): above 0;
\* with equal aspect ratios the two atan are equal and v is below 1e-2;
\* atan lies in (0, pi / 2) and pi in (3, 22 / 7), so v is below 484 / 441
v_hi(ra, rb) ==
    LET delta_x_1 == ra[3] - ra[1]
        delta_x_2 == rb[3] - rb[1]
        delta_y_1 == ra[4] - ra[2]
        delta_y_2 == rb[4] - rb[2]
    IN  IF delta_x_1 * delta_y_2 = delta_x_2 * delta_y_1
        THEN <<1, 100>>
        ELSE <<484, 441>>

\* alpha = v / ((1 - iou) + v) lies above 0 and is at most 1, as iou is at
\* most 1 for boxes of positive width and height; so alpha * v lies above 0
\* and is at most the upper bound of v
penalty_hi(iou_k, ra, rb) == v_hi(ra, rb)

\* ciou = diou - alpha * v, each score as the bounds <<lo, hi>> it lies
\* between, below the upper one; alpha is computed from iou as IoU
\* returned it (tools.py:405-429)
CIoU(a, b, B) ==
    LET iou  == IoU(a, b, B)
        diou == DIoU(a, b, B)
    IN  [data |-> View([k \in 1 .. Len(a.data) |->
                           [lo |-> RatSub(ViewFlat(diou.data)[k],
                                          penalty_hi(ViewFlat(iou.data)[k],
                                                     a.data[k], b.data[k])),
                            hi |-> ViewFlat(diou.data)[k]]], B),
         requires_grad |-> a.requires_grad \/ b.requires_grad,
         alpha_iou_requires_grad |-> iou.requires_grad]

\* boxes of positive width and height: a square, a square overlapping it, a
\* wide box touching it in a corner, and a wide box touching it on an edge;
\* the two wide boxes lie apart from each other
BoxPool ==
    { <<0, 0, 2, 2>>,
      <<1, 1, 3, 3>>,
      <<2, 2, 4, 3>>,
      <<2, 0, 4, 1>> }

InitIoU ==
    /\ \E K \in 1 .. MaxPairs :
          /\ \E rows \in [1 .. K -> BoxPool], g \in BOOLEAN :
                bboxes_a = [data |-> rows, requires_grad |-> g]
          /\ \E rows \in [1 .. K -> BoxPool] :
                bboxes_b = [data |-> rows, requires_grad |-> FALSE]
    /\ scores = <<>>
    /\ input_size = <<0, 0>>
    /\ strides = <<>>
    /\ anchor_size = <<>>
    /\ ignore_thresh = <<1, 2>>
    /\ label_lists = <<>>
    /\ batch_index = 0
    /\ gt_tensor = <<>>
    /\ status = "idle"
    /\ ret = <<>>
    /\ last_iou = <<>>
    /\ label = <<>>
    /\ pred = <<>>
    /\ obj_loss_f = "mse"
    /\ loss_fn = "loss"
    /\ out = <<>>
    /\ changed = -1
    /\ TrainIdle
    /\ anchor_scale = <<>>
    /\ anchor_aspect = <<>>

\* the batch sizes view(B, -1) accepts
BatchSizes == { B \in 1 .. Len(bboxes_a.data) : Len(bboxes_a.data) % B = 0 }

CallIoU ==
    /\ \E B \in BatchSizes :
          scores' = [fn |-> "IoU", batch_size |-> B, out |-> IoU(bboxes_a, bboxes_b, B)]
    /\ UNCHANGED <<bboxes_a, bboxes_b>>
    /\ UNCHANGED <<encvars, lossvars, genvars, trainvars>>

CallDIoU ==
    /\ \E B \in BatchSizes :
          scores' = [fn |-> "DIoU", batch_size |-> B, out |-> DIoU(bboxes_a, bboxes_b, B)]
    /\ UNCHANGED <<bboxes_a, bboxes_b>>
    /\ UNCHANGED <<encvars, lossvars, genvars, trainvars>>

CallCIoU ==
    /\ \E B \in BatchSizes :
          scores' = [fn |-> "CIoU", batch_size |-> B, out |-> CIoU(bboxes_a, bboxes_b, B)]
    /\ UNCHANGED <<bboxes_a, bboxes_b>>
    /\ UNCHANGED <<encvars, lossvars, genvars, trainvars>>

NextIoU == CallIoU \/ CallDIoU \/ CallCIoU

SpecIoU == InitIoU /\ [][NextIoU]_vars

\* the last call was fn
Called(fn) == scores # <<>> /\ scores.fn = fn

\* the rows of the last result, in the order of the input rows
Flat == ViewFlat(scores.out.data)

Rows == 1 .. Len(bboxes_a.data)

\* the two boxes share no inner point: apart, or touching on an edge or in a corner
Disjoint(ra, rb) ==
    \/ ra[3] <= rb[1]
    \/ rb[3] <= ra[1]
    \/ ra[4] <= rb[2]
    \/ rb[4] <= ra[2]

\* the two boxes have a gap between them
Apart(ra, rb) ==
    \/ ra[3] < rb[1]
    \/ rb[3] < ra[1]
    \/ ra[4] < rb[2]
    \/ rb[4] < ra[2]

\* C15: the paired IoU is symmetric, IoU(a, b) = IoU(b, a) row by row, and
\* IoU(a, a) is exactly 1 for a box of positive width and height.
C15_IoUSymmetricAndOneOnItself ==
    Called("IoU") =>
        /\ scores.out.data = IoU(bboxes_b, bboxes_a, scores.batch_size).data
        /\ \A k \in Rows :
              bboxes_a.data[k] = bboxes_b.data[k] => Flat[k] = <<1, 1>>

\* a batch of two rows: a box paired with itself, and two different boxes
\* that overlap
C15_Witness ==
    /\ Called("IoU")
    /\ Len(bboxes_a.data) = 2
    /\ bboxes_a.data[1] = bboxes_b.data[1]
    /\ bboxes_a.data[2] # bboxes_b.data[2]
    /\ Flat[2][1] > 0

C18_AlphaIouDetached ==
    Called("CIoU") => ~scores.out.alpha_iou_requires_grad

----------------------------------------------------------------------------
(* Anchors that share the maximum IoU with a ground truth.                  *)

\* the anchors whose IoU with the label no other anchor exceeds
Tied(gt_label) ==
    LET iou == LabelIou(gt_label)
    IN  { index \in 0 .. (Len(iou) - 1) :
            \A j \in 1 .. Len(iou) : iou[j][1] * iou[index + 1][2]
                                        <= iou[index + 1][1] * iou[j][2] }

\* the smallest index of a set of indexes
Lowest(S) == CHOOSE index \in S : \A j \in S : index <= j

\* C20: one label processed on an empty slice, with two or more anchors
\* sharing the maximum IoU: the one positive entry is at the tied anchor of
\* the smallest flattened index, whether or not any anchor is above
\* ignore_thresh; every other tied anchor is ignored (objectness -1) when
\* above the threshold and negative (objectness 0) otherwise.
C20_TieFirstIndexWins ==
    \A b \in Images : \A gt_label \in LabelPool :
        (OneProcessed(b, gt_label) /\ Cardinality(Tied(gt_label)) >= 2) =>
            /\ PositivesOf(b) = { Slot(b, gt_label, Lowest(Tied(gt_label))) }
            /\ \A index \in Tied(gt_label) \ {Lowest(Tied(gt_label))} :
                  /\ Slot(b, gt_label, index) \in SliceOf(b)
                  /\ Objectness(gt_tensor[Slot(b, gt_label, index)])
                        = (IF index \in Above(gt_label) THEN -1 ELSE 0)

\* two images of one label each: in one the tied anchors are above the
\* threshold, in the other no anchor is
C20_Witness ==
    /\ status = "returned"
    /\ batch_size = 2
    /\ \E g0 \in LabelPool, g1 \in LabelPool :
          /\ OneProcessed(0, g0)
          /\ OneProcessed(1, g1)
          /\ Cardinality(Tied(g0)) >= 2
          /\ Cardinality(Tied(g1)) >= 2
          /\ Tied(g0) \subseteq Above(g0)
          /\ Above(g1) = {}
----------------------------------------------------------------------------
(* The assignment of a label and where the label lies.                      *)

\* the flattened anchor index of an entry of the arrays
IndexOfSlot(i) == i[1] * anchor_number + i[5]

\* C21: the label loop compares the label with every anchor of every scale
\* at once, and two labels of equal pixel width and height, processed alone
\* in two images, get the same flattened anchor index as positive and the
\* same set of flattened anchor indexes as ignored, wherever their centres
\* are.
C21_AssignmentByShapeOnly ==
    /\ (status = "loop" /\ last_iou # <<>>) => Len(last_iou) = Len(anchor_size)
    /\ \A g0 \in LabelPool : \A g1 \in LabelPool :
          ( /\ batch_size = 2
            /\ OneProcessed(0, g0)
            /\ OneProcessed(1, g1)
            /\ box_w(g0) = box_w(g1)
            /\ box_h(g0) = box_h(g1) )
          => /\ { IndexOfSlot(i) : i \in PositivesOf(0) }
                  = { IndexOfSlot(i) : i \in PositivesOf(1) }
             /\ { IndexOfSlot(i) : i \in IgnoredOf(0) }
                  = { IndexOfSlot(i) : i \in IgnoredOf(1) }
             /\ Cardinality(PositivesOf(0)) = 1

\* two labels of one shape with different centres, each alone in its image,
\* whose positive is on the second scale and whose ignored anchor is on the
\* first, in different cells
C21_Witness ==
    /\ status = "returned"
    /\ batch_size = 2
    /\ \E g0 \in LabelPool, g1 \in LabelPool :
          /\ OneProcessed(0, g0)
          /\ OneProcessed(1, g1)
          /\ box_w(g0) = box_w(g1)
          /\ box_h(g0) = box_h(g1)
          /\ c_x(g0) # c_x(g1)
          /\ c_y(g0) # c_y(g1)
          /\ \E i \in PositivesOf(0) : i[1] = 1
          /\ \E i \in IgnoredOf(0) : i[1] = 0
          /\ \E i \in IgnoredOf(0) : \E j \in IgnoredOf(1) :
                <<i[3], i[4]>> # <<j[3], j[4]>>
----------------------------------------------------------------------------
(* The cell and the offsets of a positive entry.                            *)

\* the label's normalized box is the one kept in channels 7 to 10 of e
BoxKept(e, gt_label) ==
    <<e[7], e[8], e[9], e[10]>> = <<gt_label[1], gt_label[2], gt_label[3], gt_label[4]>>

\* n is the whole part and frac the fractional part of c / den
WholeAndFraction(c, den, n, frac) ==
    /\ n * den <= c
    /\ c < (n + 1) * den
    /\ frac[1] >= 0
    /\ frac[1] < frac[2]
    /\ c * frac[2] = (n * frac[2] + frac[1]) * den

\* C22: every positive entry of the arrays is at the cell (floor(c_y /
\* stride), floor(c_x / stride)) of the centre of the label whose box it
\* keeps, at the stride of the entry's scale, and its tx and ty are the
\* fractional parts of c_x / stride and c_y / stride, at least 0 and below 1.
C22_CellAndOffsets ==
    Allocated =>
        \A i \in DOMAIN gt_tensor :
            Objectness(gt_tensor[i]) = 1 =>
                \E k \in 1 .. Len(label_lists[i[2] + 1]) :
                    LET gt_label == label_lists[i[2] + 1][k]
                        den      == strides[i[1] + 1] * SubPx
                    IN  /\ BoxKept(gt_tensor[i], gt_label)
                        /\ WholeAndFraction(c_y(gt_label), den, i[3], gt_tensor[i][3])
                        /\ WholeAndFraction(c_x(gt_label), den, i[4], gt_tensor[i][2])

\* a positive entry away from the first row and column, with offsets that
\* are not 0, and one on the other scale
C22_Witness ==
    /\ status = "returned"
    /\ \E i \in DOMAIN gt_tensor :
          /\ Objectness(gt_tensor[i]) = 1
          /\ i[3] > 0
          /\ i[4] > 0
          /\ gt_tensor[i][2][1] > 0
          /\ gt_tensor[i][3][1] > 0
    /\ \E i \in DOMAIN gt_tensor : Objectness(gt_tensor[i]) = 1 /\ i[1] = 1
----------------------------------------------------------------------------
(* Flattened anchor indexes and flat positions.                             *)

\* C23: the positive of a label processed alone is at scale index div A and
\* within-scale anchor index mod A of its best anchor, A the anchors per
\* scale; and in the returned tensor the entry of (scale s, grid_y, grid_x,
\* anchor a) is at flat position offset_s + (grid_y * W_s + grid_x) * A + a,
\* offset_s the number of entries of the scales before s.
C23_IndexAndFlatPosition ==
    /\ \A b \in Images : \A gt_label \in LabelPool :
          OneProcessed(b, gt_label) =>
              \A i \in PositivesOf(b) :
                  /\ i[1] = Best(gt_label) \div anchor_number
                  /\ i[5] = Best(gt_label) % anchor_number
    /\ status = "returned" =>
          \A i \in DOMAIN gt_tensor :
              LET p == TotalAnchors(i[1])
                       + (i[3] * ShapeW(i[1]) + i[4]) * anchor_number + i[5]
              IN  /\ p \in DOMAIN ret[i[2]]
                  /\ ret[i[2]][p] = gt_tensor[i]

\* a returned tensor on a grid that is not square, two anchors per scale,
\* with a positive entry of the second anchor of the second scale, in the
\* second column
C23_Witness ==
    /\ status = "returned"
    /\ input_size = <<4, 8>>
    /\ anchor_number = 2
    /\ \E i \in DOMAIN gt_tensor :
          /\ Objectness(gt_tensor[i]) = 1
          /\ i[1] = 1
          /\ i[4] = 1
          /\ i[5] = 1
    /\ \E i \in DOMAIN gt_tensor :
          /\ Objectness(gt_tensor[i]) # 0
          /\ i[1] = 0
          /\ i[3] = 1
----------------------------------------------------------------------------
(* The scale weight of a positive entry.                                    *)

\* the area of the normalized box kept in e, in units of 1 / CoordDen^2
AreaKept(e) == (e[9] - e[7]) * (e[10] - e[8])

PositiveSlots == { i \in DOMAIN gt_tensor : Objectness(gt_tensor[i]) = 1 }

\* C24: the scale weight of every positive entry is 2 - (gt_w / image_w) *
\* (gt_h / image_h) of a label whose box it keeps; it is at least 1 and
\* below 2, and of two positive entries the one whose box has the strictly
\* smaller area has the strictly larger weight.
C24_ScaleWeight ==
    Allocated =>
        /\ \A i \in PositiveSlots :
              LET e == gt_tensor[i]
              IN  /\ \E k \in 1 .. Len(label_lists[i[2] + 1]) :
                        LET gt_label == label_lists[i[2] + 1][k]
                        IN  /\ BoxKept(e, gt_label)
                            /\ ScaleWeight(e)[1] * CoordDen * CoordDen
                                  = ( 2 * CoordDen * CoordDen
                                      - (gt_label[3] - gt_label[1])
                                        * (gt_label[4] - gt_label[2]) )
                                    * ScaleWeight(e)[2]
                  /\ ScaleWeight(e)[1] >= ScaleWeight(e)[2]
                  /\ ScaleWeight(e)[1] < 2 * ScaleWeight(e)[2]
        /\ \A i \in PositiveSlots : \A j \in PositiveSlots :
              AreaKept(gt_tensor[i]) < AreaKept(gt_tensor[j])
                  => RatGt(ScaleWeight(gt_tensor[i]), ScaleWeight(gt_tensor[j]))

\* a returned tensor with a positive entry of a box that fills the image,
\* of weight 1, and a positive entry of a smaller box
C24_Witness ==
    /\ status = "returned"
    /\ \E i \in PositiveSlots : \E j \in PositiveSlots :
          /\ AreaKept(gt_tensor[i]) < AreaKept(gt_tensor[j])
          /\ AreaKept(gt_tensor[j]) = CoordDen * CoordDen
          /\ ScaleWeight(gt_tensor[j]) = <<1, 1>>
----------------------------------------------------------------------------
(* The anchors generate_anchor emits, and their order.                      *)

\* generate_anchor has returned its list
Generated == status \notin {"config", "error"}

\* m = floor(sqrt(S * scale)), by its two inequalities
IsFloorSqrt(m, S, scale) ==
    /\ m >= 0
    /\ m * m * scale[2] <= S * scale[1]
    /\ (m + 1) * (m + 1) * scale[2] > S * scale[1]

\* size is the anchor [width, height] of the cell count S, scale and aspect
IsAnchorOf(size, S, scale, aspect) ==
    /\ IsFloorSqrt(size[1], S, scale)
    /\ size[2] * aspect[2] = size[1] * aspect[1]

\* the number of aspect ratios of the first k area ratios
RECURSIVE AspectsBefore(_)
AspectsBefore(k) ==
    IF k = 0 THEN 0 ELSE AspectsBefore(k - 1) + Len(anchor_aspect[k])

----------------------------------------------------------------------------
(* The returned tensor of one image as the label of loss and loss_ciou      *)
(* (tools.py:290-295, 332-336): as it is, and with the channels 0 to 6      *)
(* behind a confidence target, which is the layout the two functions read.  *)

\* a returned entry as a label row, channel c at place c + 1; the last
\* channel, which the loss compares with 0., as a quotient
DirectRow(e) ==
    <<e[0], e[1], e[2], e[3], e[4], e[5], e[6], e[7], e[8], e[9], <<e[10], CoordDen>> >>

\* variant: the box channels are kept behind the scale weight
ArrangedRow_BoxKept(e, conf) ==
    <<conf, e[0], e[1], e[2], e[3], e[4], e[5], e[6], <<e[10], CoordDen>> >>

\* [conf, objectness, class, tx, ty, tw, th, scale_weight]
ArrangedRow(e, conf) == <<conf, e[0], e[1], e[2], e[3], e[4], e[5], e[6]>>

\* twth_loss_function(twth_pred, gt_txtytwth[:, :, 2:]) with gt_txtytwth =
\* label[:, :, 3:-1]: the two tensors broadcast only when the target has
\* the two channels of twth_pred, or one (tools.py:293, 307)
TwthBroadcasts(lab) == \A k \in DOMAIN lab : (Len(lab[k]) - 4) - 2 \in {1, 2}

\* the one prediction of every position
PipePred == [conf |-> 1, cls |-> 0, txtytwth |-> <<1, 0>>, ciou |-> 1]

\* loss or loss_ciou on the label rows lab
LossOn(lab) ==
    LET pred_conf == [k \in DOMAIN lab |-> PipePred.conf]
        pred_cls  == [k \in DOMAIN lab |-> PipePred.cls]
    IN  IF loss_fn = "loss"
        THEN IF TwthBroadcasts(lab)
             THEN loss(pred_conf, pred_cls, [k \in DOMAIN lab |-> PipePred.txtytwth],
                       lab, obj_loss_f)
             ELSE <<"RuntimeError">>
        ELSE loss_ciou(pred_conf, pred_cls, [k \in DOMAIN lab |-> PipePred.ciou],
                       lab, obj_loss_f)

\* the label lists of one image, of at most MaxLabels labels
PipeLists ==
    UNION { { <<labels>> : labels \in [1 .. n -> LabelPool] } : n \in 0 .. MaxLabels }

InitPipe ==
    /\ input_size \in TrainSizes
    /\ strides = Strides
    /\ anchor_size \in TrainAnchors
    /\ ignore_thresh \in Thresholds
    /\ label_lists \in PipeLists
    /\ batch_index = 0
    /\ gt_tensor = <<>>
    /\ status = "setup"
    /\ ret = <<>>
    /\ last_iou = <<>>
    /\ label = <<>>
    /\ pred = <<>>
    /\ obj_loss_f \in {"bce", "mse"}
    /\ loss_fn \in {"loss", "loss_ciou"}
    /\ out = <<>>
    /\ changed = -1
    /\ TrainIdle
    /\ anchor_scale = <<>>
    /\ anchor_aspect = <<>>
    /\ bboxes_a = <<>>
    /\ bboxes_b = <<>>
    /\ scores = <<>>

\* targets = tools.multi_gt_creator(...), the whole call (train.py:300)
CreateTargets ==
    /\ status = "setup"
    /\ LET r == BatchLoop(Ok(EmptyTensor(batch_size)), label_lists, 0)
       IN  /\ gt_tensor' = r.t
           /\ status' = IF r.err THEN "error" ELSE "returned"
           /\ ret' = IF r.err THEN <<>> ELSE Flatten(r.t, batch_size)
    /\ batch_index' = batch_size
    /\ UNCHANGED <<input_size, strides, anchor_size, ignore_thresh, label_lists, last_iou>>
    /\ UNCHANGED <<lossvars, genvars, iouvars, trainvars>>

\* the returned tensor is the label, as it is
PassDirect ==
    /\ status = "returned"
    /\ label' = [k \in 1 .. TotalLen |-> DirectRow(ret[0][k - 1])]
    /\ out' = LossOn(label')
    /\ status' = "passed"
    /\ UNCHANGED <<input_size, strides, anchor_size, ignore_thresh, label_lists,
                   batch_index, gt_tensor, ret, last_iou>>
    /\ UNCHANGED <<pred, obj_loss_f, loss_fn, changed>>
    /\ UNCHANGED <<genvars, iouvars, trainvars>>

\* the label is the returned tensor with its channels 0 to 6 behind a
\* confidence target
PassArranged ==
    /\ status = "returned"
    /\ \E conf \in {0, 1} :
          label' = [k \in 1 .. TotalLen |-> ArrangedRow(ret[0][k - 1], conf)]
    /\ out' = LossOn(label')
    /\ status' = "arranged"
    /\ UNCHANGED <<input_size, strides, anchor_size, ignore_thresh, label_lists,
                   batch_index, gt_tensor, ret, last_iou>>
    /\ UNCHANGED <<pred, obj_loss_f, loss_fn, changed>>
    /\ UNCHANGED <<genvars, iouvars, trainvars>>

NextPipe == CreateTargets \/ PassDirect \/ PassArranged

SpecPipe == InitPipe /\ [][NextPipe]_vars

\* the loss read the objectness mask, the class, the regression targets and
\* the scale weight of position k from the channels 0 to 6 of the entry e
ReadsEntry(k, e) ==
    /\ (out[1].pos_loss[k].of # <<>>) <=> (e[0] = 1)
    /\ (out[1].neg_loss[k].of # <<>>) <=> (e[0] = 0)
    /\ out[2][k] = Term("ce", gt_mask(e[6]), 1, <<PipePred.cls, e[1]>>)
    /\ IF loss_fn = "loss"
       THEN /\ out[3][1][k] = Term("bce_logits", e[6][1] * gt_mask(e[6]), e[6][2],
                                   <<PipePred.txtytwth[1], e[2], e[3]>>)
            /\ out[3][2][k] = Term("mse", e[6][1] * gt_mask(e[6]), e[6][2],
                                   <<PipePred.txtytwth[2], e[4], e[5]>>)
       ELSE out[3][k] = Term("one_minus", e[6][1] * gt_mask(e[6]), e[6][2],
                             <<PipePred.ciou>>)

\* C26 as stated: with the returned tensor as the label, loss and loss_ciou
\* return, having read the objectness mask from channel 0, the class from
\* channel 1, tx, ty, tw, th from channels 2 to 5 and the scale weight from
\* channel 6 of every entry
\* (refuted: they read the mask from channel 1, the class from channel 2,
\* the scale weight from the last channel, and loss raises on 11 channels).
C26_ReadsEncoderLayout ==
    status = "passed" =>
        /\ out # <<"RuntimeError">>
        /\ \A k \in DOMAIN label : ReadsEntry(k, ret[0][k - 1])

\* C26 (amended): with the label [confidence target, channels 0 to 6 of the
\* returned entry], loss and loss_ciou return, having read the confidence
\* target from channel 0 of the label and the entry's objectness, class,
\* tx, ty, tw, th and scale weight from channels 1 to 7 of the label.
C26_ReadsArrangedLayout ==
    status = "arranged" =>
        /\ out # <<"RuntimeError">>
        /\ \A k \in DOMAIN label :
              /\ ReadsEntry(k, ret[0][k - 1])
              /\ ret[0][k - 1][0] = 1 =>
                    out[1].pos_loss[k].of = <<sigmoid(PipePred.conf), label[k][1]>>

\* loss on the arranged tensor of an image with a positive entry of class
\* 1, an ignored entry and a negative one
C26_Witness ==
    /\ status = "arranged"
    /\ loss_fn = "loss"
    /\ \E k \in DOMAIN label : ret[0][k - 1][0] = 1 /\ ret[0][k - 1][1] = 1
    /\ \E k \in DOMAIN label : ret[0][k - 1][0] = -1
    /\ \E k \in DOMAIN label : ret[0][k - 1][0] = 0
----------------------------------------------------------------------------
(* Positive entries under the later labels of an image.                     *)

\* C27 as stated: while an image is being processed, a step of the label
\* loop leaves every entry that is positive as it is: it is not marked
\* ignored and not overwritten with the targets of another label
\* (refuted: the writes test nothing about what the entry holds).
C27_PositiveEntryKept ==
    [][ (status = "loop" /\ status' = "loop" /\ batch_index' = batch_index) =>
            \A i \in DOMAIN gt_tensor :
                Objectness(gt_tensor[i]) = 1 => gt_tensor'[i] = gt_tensor[i] ]_vars
----------------------------------------------------------------------------
(* What a returned entry holds.                                             *)

\* the flat position of the entry i of the arrays in the returned tensor
FlatPos(i) ==
    TotalAnchors(i[1]) + (i[3] * ShapeW(i[1]) + i[4]) * anchor_number + i[5]

\* every channel of e is of the label gt_label, for the anchor and the
\* scale of the entry i: class, tx, ty, tw, th, scale weight and box, and
\* i is the cell of the label's centre
AllOf(e, i, gt_label) ==
    LET den == strides[i[1] + 1] * SubPx
        p   == anchor_size[IndexOfSlot(i) + 1]
    IN  /\ e[1] = gt_label[5]
        /\ BoxKept(e, gt_label)
        /\ WholeAndFraction(c_x(gt_label), den, i[4], e[2])
        /\ WholeAndFraction(c_y(gt_label), den, i[3], e[3])
        /\ RatEq(e[4], <<(gt_label[3] - gt_label[1]) * input_size[2], p[1] * CoordDen>>)
        /\ RatEq(e[5], <<(gt_label[4] - gt_label[2]) * input_size[1], p[2] * CoordDen>>)
        /\ e[6][1] * CoordDen * CoordDen
              = ( 2 * CoordDen * CoordDen
                  - (gt_label[3] - gt_label[1]) * (gt_label[4] - gt_label[2]) ) * e[6][2]

\* C28: in every returned tensor an entry with objectness 1 holds the class,
\* tx, ty, tw, th, scale weight and normalized box of one label of its
\* image, whose centre is in the entry's cell, and an entry with objectness
\* 0 is 0 in every channel.
C28_PositiveOfOneLabelNegativeZero ==
    status = "returned" =>
        \A i \in DOMAIN gt_tensor :
            LET e == ret[i[2]][FlatPos(i)]
            IN  /\ Objectness(e) = 1 =>
                      \E k \in 1 .. Len(label_lists[i[2] + 1]) :
                          AllOf(e, i, label_lists[i[2] + 1][k])
                /\ Objectness(e) = 0 =>
                      /\ \A c \in {1, 7, 8, 9, 10} : e[c] = 0
                      /\ \A c \in {2, 3, 6} : e[c][1] = 0
                      /\ \A c \in {4, 5} : e[c][1] = e[c][2]

\* a returned image of two labels of different class and size with one
\* centre cell and one best anchor: the one positive entry is of the second
\* label, and an entry is ignored
C28_Witness ==
    /\ status = "returned"
    /\ \E b \in Images :
          /\ Len(label_lists[b + 1]) = 2
          /\ label_lists[b + 1][1][5] # label_lists[b + 1][2][5]
          /\ box_w(label_lists[b + 1][1]) # box_w(label_lists[b + 1][2])
          /\ Cardinality(PositivesOf(b)) = 1
          /\ \A i \in PositivesOf(b) : gt_tensor[i][1] = label_lists[b + 1][2][5]
          /\ IgnoredOf(b) # {}
----------------------------------------------------------------------------
(* Cells and the extent of the arrays, for sizes every stride divides.      *)

\* the cell of the centre of gt_label at the scale s, <<grid_y, grid_x>>
CellAt(gt_label, s) ==
    <<c_y(gt_label) \div (strides[s + 1] * SubPx),
      c_x(gt_label) \div (strides[s + 1] * SubPx)>>

\* C29: with labels in [0, 1] and an input height and width that every
\* stride divides, the centre cell of every label of at least one pixel is
\* inside the array of every scale; no step of the loop raises, and the
\* positive write of the label just processed was not dropped.
C29_CellsInsideExtent ==
    /\ status # "error"
    /\ Allocated =>
          \A b \in Images : \A k \in 1 .. Len(label_lists[b + 1]) :
              LET gt_label == label_lists[b + 1][k]
              IN  ~Dirty(gt_label) =>
                      \A s \in 0 .. (num_scale - 1) :
                          /\ CellAt(gt_label, s)[1] < input_size[1] \div strides[s + 1]
                          /\ CellAt(gt_label, s)[2] < input_size[2] \div strides[s + 1]
    /\ \A gt_label \in LabelPool :
          (JustTaken(gt_label) /\ ~Dirty(gt_label)) =>
              \E i \in PositivesOf(batch_index) :
                  /\ <<i[3], i[4]>> = CellAt(gt_label, i[1])
                  /\ BoxKept(gt_tensor[i], gt_label)

\* a returned tensor with a positive entry in the last cell of the first
\* scale and an ignored entry in the last cell of a scale
C29_Witness ==
    /\ status = "returned"
    /\ \E i \in PositiveSlots :
          /\ i[1] = 0
          /\ i[3] = ShapeH(0) - 1
          /\ i[4] = ShapeW(0) - 1
    /\ \E i \in DOMAIN gt_tensor :
          /\ Objectness(gt_tensor[i]) = -1
          /\ i[3] = ShapeH(i[1]) - 1
          /\ i[4] = ShapeW(i[1]) - 1
----------------------------------------------------------------------------
(* The training loop of train() (train.py:93-100, 253-340): the sizes it    *)
(* hands to the model's grid and to multi_gt_creator.  The images, labels   *)
(* and losses of an iteration are left out; input_size is the size the      *)
(* last call of multi_gt_creator was given.                                 *)

\* epochs of a run
MaxEpoch == 2
\* iterations of an epoch: len(dataloader)
EpochSize == 21

InitTrain ==
    /\ multi_scale \in BOOLEAN
    /\ eval_epoch \in {1, 2}
    /\ train_size = IF multi_scale THEN <<640, 640>> ELSE <<416, 416>>
    /\ val_size = <<416, 416>>
    /\ grid_size = train_size
    /\ trainable = TRUE
    /\ epoch = 0
    /\ iter_i = 0
    /\ pc = "iter"
    /\ input_size = <<0, 0>>
    /\ strides = <<>>
    /\ anchor_size = <<>>
    /\ ignore_thresh = <<1, 2>>
    /\ label_lists = <<>>
    /\ batch_index = 0
    /\ gt_tensor = <<>>
    /\ status = "idle"
    /\ ret = <<>>
    /\ last_iou = <<>>
    /\ label = <<>>
    /\ pred = <<>>
    /\ obj_loss_f = "mse"
    /\ loss_fn = "loss"
    /\ out = <<>>
    /\ changed = -1
    /\ anchor_scale = <<>>
    /\ anchor_aspect = <<>>
    /\ bboxes_a = <<>>
    /\ bboxes_b = <<>>
    /\ scores = <<>>

TrainFrame == UNCHANGED <<encvars, lossvars, genvars, iouvars>>

\* if iter_i % 10 == 0 and iter_i > 0 and args.multi_scale (train.py:288-291)
MultiScaleResize ==
    /\ pc = "iter"
    /\ iter_i % 10 = 0 /\ iter_i > 0 /\ multi_scale
    /\ \E r \in 10 .. 19 :
          /\ train_size' = <<r * 32, r * 32>>
          /\ grid_size' = train_size'
    /\ pc' = "label"
    /\ UNCHANGED <<multi_scale, eval_epoch, val_size, trainable, epoch, iter_i>>
    /\ TrainFrame

\* the test at train.py:288 fails
KeepSize ==
    /\ pc = "iter"
    /\ ~(iter_i % 10 = 0 /\ iter_i > 0 /\ multi_scale)
    /\ pc' = "label"
    /\ UNCHANGED <<multi_scale, eval_epoch, train_size, val_size, grid_size,
                   trainable, epoch, iter_i>>
    /\ TrainFrame

\* targets = tools.multi_gt_creator(train_size, ...) (train.py:300)
MakeTrainLabel ==
    /\ pc = "label"
    /\ input_size' = train_size
    /\ pc' = "forward"
    /\ UNCHANGED <<multi_scale, eval_epoch, train_size, val_size, grid_size,
                   trainable, epoch, iter_i>>
    /\ UNCHANGED <<strides, anchor_size, ignore_thresh, label_lists, batch_index,
                   gt_tensor, status, ret, last_iou>>
    /\ UNCHANGED <<lossvars, genvars, iouvars>>

\* model(images, target=targets), backward and step; then the next
\* iteration, or the end of the epoch (train.py:272, 304-309)
ForwardAndLoss ==
    /\ pc = "forward"
    /\ IF iter_i + 1 < EpochSize
       THEN iter_i' = iter_i + 1 /\ pc' = "iter"
       ELSE iter_i' = iter_i /\ pc' = "epoch_end"
    /\ UNCHANGED <<multi_scale, eval_epoch, train_size, val_size, grid_size,
                   trainable, epoch>>
    /\ TrainFrame

\* if (epoch + 1) % args.eval_epoch == 0: up to evaluator.evaluate(model)
\* (train.py:329-335)
Evaluate ==
    /\ pc = "epoch_end"
    /\ (epoch + 1) % eval_epoch = 0
    /\ trainable' = FALSE
    /\ grid_size' = val_size
    /\ pc' = "eval"
    /\ UNCHANGED <<multi_scale, eval_epoch, train_size, val_size, epoch, iter_i>>
    /\ TrainFrame

\* variant: the grid is left at val_size
ConvertToTraining_GridLeft ==
    /\ pc = "eval"
    /\ trainable' = TRUE
    /\ pc' = "save"
    /\ UNCHANGED <<multi_scale, eval_epoch, train_size, val_size, grid_size, epoch, iter_i>>
    /\ TrainFrame

\* convert to training mode (train.py:337-340)
ConvertToTraining ==
    /\ pc = "eval"
    /\ trainable' = TRUE
    /\ grid_size' = train_size
    /\ pc' = "save"
    /\ UNCHANGED <<multi_scale, eval_epoch, train_size, val_size, epoch, iter_i>>
    /\ TrainFrame

\* the test at train.py:329 fails
SkipEvaluation ==
    /\ pc = "epoch_end"
    /\ (epoch + 1) % eval_epoch # 0
    /\ pc' = "save"
    /\ UNCHANGED <<multi_scale, eval_epoch, train_size, val_size, grid_size,
                   trainable, epoch, iter_i>>
    /\ TrainFrame

\* for epoch in range(args.start_epoch, max_epoch): the next epoch, or the end
NextEpoch ==
    /\ pc = "save"
    /\ IF epoch + 1 < MaxEpoch
       THEN epoch' = epoch + 1 /\ iter_i' = 0 /\ pc' = "iter"
       ELSE epoch' = epoch /\ iter_i' = iter_i /\ pc' = "done"
    /\ UNCHANGED <<multi_scale, eval_epoch, train_size, val_size, grid_size, trainable>>
    /\ TrainFrame

NextTrain ==
    \/ MultiScaleResize
    \/ KeepSize
    \/ MakeTrainLabel
    \/ ForwardAndLoss
    \/ Evaluate
    \/ ConvertToTraining
    \/ SkipEvaluation
    \/ NextEpoch

SpecTrain == InitTrain /\ [][NextTrain]_vars

\* C30: at every call of multi_gt_creator in train(), and at the forward
\* pass after it, the input size of the call is the size the model's grid
\* was last set to, and the model is trainable; a resized train_size is a
\* square of a multiple of 32 from 320 to 608; during an evaluation the grid
\* is at val_size and the model is not trainable.
C30_TargetsSizeIsGridSize ==
    /\ pc = "label" => (grid_size = train_size /\ trainable)
    /\ pc = "forward" => (input_size = grid_size /\ input_size = train_size /\ trainable)
    /\ pc = "eval" => (grid_size = val_size /\ ~trainable)
    /\ pc # "idle" =>
          \/ train_size = (IF multi_scale THEN <<640, 640>> ELSE <<416, 416>>)
          \/ /\ multi_scale
             /\ train_size[1] = train_size[2]
             /\ train_size[1] % 32 = 0
             /\ train_size[1] >= 320
             /\ train_size[1] <= 608

\* the forward pass of an iteration of the second epoch, after an
\* evaluation, at a size a resize has set, which is not val_size
C30_Witness ==
    /\ pc = "forward"
    /\ epoch = 1
    /\ eval_epoch = 1
    /\ multi_scale
    /\ iter_i = 3
    /\ train_size = <<320, 320>>
    /\ input_size = <<320, 320>>
====
